---- MODULE Spec2Model ----
(***************************************************************************)
(* Model of the two Streamlit dashboards of the repository:                *)
(*   src/presentation/pn_accuracy_dashboard.py  (BMU PN accuracy)          *)
(*   src/presentation/reference.py              (interconnector trading)   *)
(* A script run is a sequence of steps over pandas DataFrames.  DataFrames *)
(* are objects on a heap (a sequence of tables); a script variable holds   *)
(* the index of its object, so that copying, boolean indexing (a new       *)
(* object) and column assignment (in place) are told apart.                *)
(***************************************************************************)
EXTENDS Integers, Sequences, FiniteSets, TLC

(***************************************************************************)
(* Values                                                                  *)
(***************************************************************************)
\* Float columns are fixed-point integers: Scale units per percentage point
\* (or per MW), so that 3.9999 is 39999.
Scale == 10000

\* NaN / None / NaT, and a present value v.
NULL == <<>>
Some(v) == <<v>>
isna(x) == x = NULL

\* Raw CSV cells of a numeric column: a number, text that is no number, or
\* an empty cell.
NumCell(n) == [t |-> "num", n |-> n]
TxtCell == [t |-> "txt", n |-> 0]
EmptyCell == [t |-> "empty", n |-> 0]

(***************************************************************************)
(* Sequence helpers                                                        *)
(***************************************************************************)
SeqsUpTo(S, n) == UNION {[1..k -> S] : k \in 0..n}

Range(s) == {s[i] : i \in 1..Len(s)}

\* variant: the frames stacked last to first
RECURSIVE concat_reversed(_)
concat_reversed(dfs) ==
    IF dfs = <<>> THEN <<>> ELSE concat_reversed(Tail(dfs)) \o Head(dfs)

RECURSIVE concat(_)
\* pd.concat(dfs, ignore_index=True): the frames stacked in list order.
concat(dfs) == IF dfs = <<>> THEN <<>> ELSE Head(dfs) \o concat(Tail(dfs))

RECURSIVE insert_sorted(_, _)
insert_sorted(x, s) ==
    IF s = <<>> THEN <<x>>
    ELSE IF x <= Head(s) THEN <<x>> \o s
    ELSE <<Head(s)>> \o insert_sorted(x, Tail(s))

RECURSIVE sort(_)
\* ascending sort of a sequence of integers
sort(s) == IF s = <<>> THEN <<>> ELSE insert_sorted(Head(s), sort(Tail(s)))

(***************************************************************************)
(* pandas / numpy primitives                                               *)
(***************************************************************************)
\* variant: a failed coercion yields zero
to_numeric_zero(c) == IF c.t = "num" THEN Some(c.n) ELSE Some(0)

\* pd.to_numeric(col, errors="coerce") on one cell
to_numeric(c) == IF c.t = "num" THEN Some(c.n) ELSE NULL

\* .astype(str) on an identifier cell: an empty cell (NaN) becomes "nan"
astype_str(c) == IF c = "" THEN "nan" ELSE c

\* Series.dropna() on a sequence of nullable numbers, as plain integers
dropna(s) == LET nn == SelectSeq(s, LAMBDA x : ~isna(x))
             IN  [i \in 1..Len(nn) |-> nn[i][1]]

\* variant: nulls replaced by zero
fillna0(s) == [i \in 1..Len(s) |-> IF isna(s[i]) THEN 0 ELSE s[i][1]]

\* Denominator of a percentile: nanpercentile returns a number of
\* hundredths of a unit (linear interpolation at rank q/100 * (n-1)).
PctDen == 100

\* variant: the percentile with nulls counted as zero
nanpercentile_zero(s, q) ==
    LET a == sort(fillna0(s))
        n == Len(a)
        pos == q * (n - 1)
        lo == pos \div PctDen
        fr == pos % PctDen
        hi == IF lo + 1 < n THEN lo + 1 ELSE lo
    IN  IF n = 0 THEN NULL
        ELSE Some(PctDen * a[lo + 1] + fr * (a[hi + 1] - a[lo + 1]))

\* np.nanpercentile(s, q) (method "linear"); NaN on no data.  The result
\* is in units of 1/PctDen of the input's unit.
nanpercentile(s, q) ==
    LET a == sort(dropna(s))
        n == Len(a)
        pos == q * (n - 1)
        lo == pos \div PctDen
        fr == pos % PctDen
        hi == IF lo + 1 < n THEN lo + 1 ELSE lo
    IN  IF n = 0 THEN NULL
        ELSE Some(PctDen * a[lo + 1] + fr * (a[hi + 1] - a[lo + 1]))

\* Series.median(): nulls skipped, NaN on no data.  The result is in
\* units of 1/2 of the input's unit (the mean of the two middle values).
median(s) ==
    LET a == sort(dropna(s))
        n == Len(a)
    IN  IF n = 0 THEN NULL ELSE Some(a[(n + 1) \div 2] + a[(n + 2) \div 2])

\* Series.max(): nulls skipped, NaN on no data
series_max(s) ==
    LET a == sort(dropna(s)) IN IF a = <<>> THEN NULL ELSE Some(a[Len(a)])

\* Series.nunique() of a column without nulls
nunique(col) == Cardinality({col[i] : i \in 1..Len(col)})

RECURSIVE series_sum(_)
\* Series.sum() of a column of integers
series_sum(col) == IF col = <<>> THEN 0 ELSE Head(col) + series_sum(Tail(col))

RECURSIVE sorted_values(_)
\* the distinct integers of a set in ascending order (sorted group keys)
sorted_values(S) ==
    IF S = {} THEN <<>>
    ELSE LET m == CHOOSE x \in S : \A y \in S : x <= y
         IN  <<m>> \o sorted_values(S \ {m})

\* `col >= k` on one nullable cell whose unit is 1/den: NaN compares False
ge(x, k, den) == ~isna(x) /\ x[1] >= k * den

\* pd.isna guarded `v < k`
lt(x, k, den) == x[1] < k * den

(***************************************************************************)
(* Heap of DataFrame objects                                               *)
(***************************************************************************)
\* a new DataFrame object holding table t; its reference is Len of the result
new_frame(h, t) == Append(h, t)

\* df.copy(): a new object with the same rows
copy(h, id) == Append(h, h[id])

\* the rows of t at the positions where the boolean mask is True
take(t, mask) ==
    LET idx == SelectSeq([i \in 1..Len(t) |-> i], LAMBDA i : mask[i])
    IN  [j \in 1..Len(idx) |-> t[idx[j]]]

\* df[mask]: boolean indexing returns a new object with the kept rows
getitem_mask(h, id, mask) == Append(h, take(h[id], mask))

\* df[col] = values: column assignment in place on the object `id`; rows
\* are the object's rows with the column set
setitem(h, id, rows) == [h EXCEPT ![id] = rows]

(***************************************************************************)
(* BMU dashboard: input domains                                            *)
(***************************************************************************)
MaxAnnualRows == 2
MaxMonthlyRows == 2

ATTENTION_THRESHOLD == 25
PERCENTILE_RANK == 90
YEAR == 2025

\* order in which groupby/sorted emit identifier keys
KeyOrder == <<"E1", "E2", "E3", "GAS", "WIND", "nan">>

AnnualRaw(b, f, a) ==
    [nationalGridBmUnit |-> b, FUEL_I |-> f, A_ABS_NetError_pct |-> a]

MonthlyRaw(b, f, m) ==
    [nationalGridBmUnit |-> b, FUEL_I |-> f, M_ABS_NetError_pct |-> m]

\* rows an annual summary file may hold
AnnualRawRows ==
    { AnnualRaw("E1", "GAS", NumCell(24 * Scale)),
      AnnualRaw("E2", "GAS", NumCell(25 * Scale)),
      AnnualRaw("E2", "WIND", TxtCell),
      AnnualRaw("", "WIND", NumCell(3 * Scale)) }

\* rows a monthly summary file may hold
MonthlyRawRows ==
    { MonthlyRaw("E1", "GAS", NumCell(20 * Scale)),
      MonthlyRaw("E1", "GAS", NumCell(26 * Scale)),
      MonthlyRaw("E2", "WIND", NumCell(25 * Scale)),
      MonthlyRaw("", "WIND", EmptyCell) }

\* the monthly file of the percentile scenario: E1 with 10..50 and a NaN
ScenarioMonthly ==
    << MonthlyRaw("E1", "GAS", NumCell(30 * Scale)),
       MonthlyRaw("E1", "GAS", NumCell(10 * Scale)),
       MonthlyRaw("E1", "GAS", EmptyCell),
       MonthlyRaw("E1", "GAS", NumCell(50 * Scale)),
       MonthlyRaw("E1", "GAS", NumCell(20 * Scale)),
       MonthlyRaw("E1", "GAS", NumCell(40 * Scale)) >>

AnnualFiles == SeqsUpTo(AnnualRawRows, MaxAnnualRows)
MonthlyFiles == SeqsUpTo(MonthlyRawRows, MaxMonthlyRows) \cup {ScenarioMonthly}

\* a few fixed files, paired with every file of the other kind
AnnualPicks ==
    { << AnnualRaw("E1", "GAS", NumCell(24 * Scale)), AnnualRaw("E2", "WIND", TxtCell) >>,
      << AnnualRaw("E2", "GAS", NumCell(25 * Scale)), AnnualRaw("", "WIND", NumCell(3 * Scale)) >> }

MonthlyPicks ==
    { <<>>,
      << MonthlyRaw("E1", "GAS", NumCell(20 * Scale)) >>,
      << MonthlyRaw("E1", "GAS", NumCell(26 * Scale)) >>,
      << MonthlyRaw("E2", "WIND", NumCell(25 * Scale)), MonthlyRaw("", "WIND", EmptyCell) >>,
      ScenarioMonthly }

(***************************************************************************)
(* BMU dashboard: load_accuracy_data                                       *)
(***************************************************************************)
\* an uploaded file that pd.read_csv cannot parse (for one, a file of zero
\* bytes)
UnreadableFile == << [read_csv |-> "raises"] >>

\* pd.read_csv(f) raises
read_csv_raises(f) == f = UnreadableFile

\* load_accuracy_data reads every file outside any try block: the exception
\* of a read leaves the function
load_accuracy_data_raises(annual_files, monthly_files) ==
    \/ \E k \in 1..Len(annual_files) : read_csv_raises(annual_files[k])
    \/ \E k \in 1..Len(monthly_files) : read_csv_raises(monthly_files[k])

load_annual_file(f) ==
    [i \in 1..Len(f) |->
        [nationalGridBmUnit |-> f[i].nationalGridBmUnit,
         FUEL_I |-> f[i].FUEL_I,
         A_ABS_NetError_pct |-> to_numeric(f[i].A_ABS_NetError_pct),
         BMU |-> astype_str(f[i].nationalGridBmUnit),
         Fuel |-> astype_str(f[i].FUEL_I),
         Year |-> YEAR,
         Grain |-> "annual"]]

load_monthly_file(f) ==
    [i \in 1..Len(f) |->
        [nationalGridBmUnit |-> f[i].nationalGridBmUnit,
         FUEL_I |-> f[i].FUEL_I,
         M_ABS_NetError_pct |-> to_numeric(f[i].M_ABS_NetError_pct),
         BMU |-> astype_str(f[i].nationalGridBmUnit),
         Fuel |-> astype_str(f[i].FUEL_I),
         Grain |-> "monthly"]]

\* load_accuracy_data(annual_files, monthly_files) -> (df_annual, df_monthly)
load_accuracy_data(annual_files, monthly_files) ==
    [annual |-> concat([k \in 1..Len(annual_files) |-> load_annual_file(annual_files[k])]),
     monthly |-> concat([k \in 1..Len(monthly_files) |-> load_monthly_file(monthly_files[k])])]

(***************************************************************************)
(* BMU dashboard: enrichment                                               *)
(***************************************************************************)
\* groupby keys: the distinct values of a column, in sorted order
group_keys(col) == SelectSeq(KeyOrder, LAMBDA k : \E i \in 1..Len(col) : col[i] = k)

\* the values of M_ABS_NetError% in the group of BMU b, in row order
monthly_group(t, b) ==
    LET g == SelectSeq(t, LAMBDA r : r.BMU = b)
    IN  [i \in 1..Len(g) |-> g[i].M_ABS_NetError_pct]

\* the lambda applied per group
p90_of_group(s) ==
    IF Len(dropna(s)) > 0 THEN nanpercentile(s, PERCENTILE_RANK) ELSE NULL

\* df_monthly_p90: one row per BMU of the monthly table
monthly_p90(t) ==
    IF t = <<>> THEN <<>>
    ELSE LET ks == group_keys([i \in 1..Len(t) |-> t[i].BMU])
         IN  [i \in 1..Len(ks) |->
                 [BMU |-> ks[i],
                  P90_monthly_error |-> p90_of_group(monthly_group(t, ks[i]))]]

\* variant: an inner join, dropping the rows without a match
RECURSIVE merge_inner(_, _)
merge_inner(left, right) ==
    IF left = <<>> THEN <<>>
    ELSE LET r == Head(left)
             m == SelectSeq(right, LAMBDA p : p.BMU = r.BMU)
         IN  [j \in 1..Len(m) |->
                 [nationalGridBmUnit |-> r.nationalGridBmUnit,
                  FUEL_I |-> r.FUEL_I,
                  A_ABS_NetError_pct |-> r.A_ABS_NetError_pct,
                  BMU |-> r.BMU, Fuel |-> r.Fuel,
                  Year |-> r.Year, Grain |-> r.Grain,
                  P90_monthly_error |-> m[j].P90_monthly_error]]
             \o merge_inner(Tail(left), right)

RECURSIVE merge_left(_, _)
\* df_annual.merge(df_monthly_p90, on="BMU", how="left")
merge_left(left, right) ==
    IF left = <<>> THEN <<>>
    ELSE LET r == Head(left)
             m == SelectSeq(right, LAMBDA p : p.BMU = r.BMU)
             with(p90) == [nationalGridBmUnit |-> r.nationalGridBmUnit,
                           FUEL_I |-> r.FUEL_I,
                           A_ABS_NetError_pct |-> r.A_ABS_NetError_pct,
                           BMU |-> r.BMU, Fuel |-> r.Fuel,
                           Year |-> r.Year, Grain |-> r.Grain,
                           P90_monthly_error |-> p90]
         IN  (IF m = <<>> THEN <<with(NULL)>>
              ELSE [j \in 1..Len(m) |-> with(m[j].P90_monthly_error)])
             \o merge_left(Tail(left), right)

\* variant: both measures required to reach the threshold
NeedsAttention_and(r) ==
    ge(r.A_ABS_NetError_pct, ATTENTION_THRESHOLD, Scale)
    /\ ge(r.P90_monthly_error, ATTENTION_THRESHOLD, Scale * PctDen)

\* (A_ABS_NetError% >= 25) | (P90_monthly_error >= 25)
NeedsAttention(r) ==
    ge(r.A_ABS_NetError_pct, ATTENTION_THRESHOLD, Scale)
    \/ ge(r.P90_monthly_error, ATTENTION_THRESHOLD, Scale * PctDen)

\* the two column assignments on the merged frame
add_flags(r) ==
    [nationalGridBmUnit |-> r.nationalGridBmUnit,
     FUEL_I |-> r.FUEL_I,
     A_ABS_NetError_pct |-> r.A_ABS_NetError_pct,
     BMU |-> r.BMU, Fuel |-> r.Fuel,
     Year |-> r.Year, Grain |-> r.Grain,
     P90_monthly_error |-> r.P90_monthly_error,
     ErrorFlagValue |-> r.A_ABS_NetError_pct,
     NeedsAttention |-> NeedsAttention(r)]

(***************************************************************************)
(* BMU dashboard: global filters and band classification                   *)
(***************************************************************************)
\* Series.isin(values) on one cell
isin(x, values) == x \in values

\* sorted(df[col].dropna().unique()) as a set (the options of a widget)
unique(t, col) == {t[i][col] : i \in 1..Len(t)}

\* variant: the BMU membership applied even when the selection is empty
global_filters_bmu_always(h, df, fuels, bmus, attention) ==
    LET t0 == h[df]
        t1 == take(t0, [i \in 1..Len(t0) |-> isin(t0[i].Fuel, fuels)])
        t2 == take(t1, [i \in 1..Len(t1) |-> isin(t1[i].BMU, bmus)])
        t3 == IF attention THEN take(t2, [i \in 1..Len(t2) |-> t2[i].NeedsAttention = TRUE])
              ELSE t2
    IN  Append(h, t3)

\* variant: the rows removed from df_annual itself
global_filters_inplace(h, df, fuels, bmus, attention) ==
    LET t0 == h[df]
        t1 == take(t0, [i \in 1..Len(t0) |-> isin(t0[i].Fuel, fuels)])
        t2 == IF bmus # {} THEN take(t1, [i \in 1..Len(t1) |-> isin(t1[i].BMU, bmus)])
              ELSE t1
        t3 == IF attention THEN take(t2, [i \in 1..Len(t2) |-> t2[i].NeedsAttention = TRUE])
              ELSE t2
    IN  Append([h EXCEPT ![df] = t3], t3)

\* variant: the first matching row lost to an off-by-one slice
global_filters_skip_first(h, df, fuels, bmus, attention) ==
    LET t0 == h[df]
        t1 == take(t0, [i \in 1..Len(t0) |-> isin(t0[i].Fuel, fuels)])
        t2 == IF bmus # {} THEN take(t1, [i \in 1..Len(t1) |-> isin(t1[i].BMU, bmus)])
              ELSE t1
        t3 == IF attention THEN take(t2, [i \in 1..Len(t2) |-> t2[i].NeedsAttention = TRUE])
              ELSE t2
    IN  Append(h, IF t3 = <<>> THEN <<>> ELSE Tail(t3))

\* lines 305-313: the heap after the filter; filtered_annual is its last object
global_filters(h, df, fuels, bmus, attention) ==
    LET h0 == copy(h, df)
        t0 == h0[Len(h0)]
        h1 == getitem_mask(h0, Len(h0), [i \in 1..Len(t0) |-> isin(t0[i].Fuel, fuels)])
        t1 == h1[Len(h1)]
        h2 == IF bmus # {}
              THEN getitem_mask(h1, Len(h1), [i \in 1..Len(t1) |-> isin(t1[i].BMU, bmus)])
              ELSE h1
        t2 == h2[Len(h2)]
        h3 == IF attention
              THEN getitem_mask(h2, Len(h2), [i \in 1..Len(t2) |-> t2[i].NeedsAttention = TRUE])
              ELSE h2
    IN  \* the temporaries are unreferenced once filtered_annual is bound
        Append(SubSeq(h3, 1, Len(h)), h3[Len(h3)])

\* variant: the fleet P90 with nulls counted as zero
fleet_kpis_zero(t) ==
    LET err == [i \in 1..Len(t) |-> t[i].A_ABS_NetError_pct]
    IN  [fleet_median |-> median(err),
         fleet_p90 |-> nanpercentile_zero(err, PERCENTILE_RANK),
         fleet_max |-> series_max(err),
         fleet_count |-> nunique([i \in 1..Len(t) |-> t[i].BMU])]

\* lines 330-333: the fleet KPIs of a table
fleet_kpis(t) ==
    LET err == [i \in 1..Len(t) |-> t[i].A_ABS_NetError_pct]
    IN  [fleet_median |-> median(err),
         fleet_p90 |-> nanpercentile(err, PERCENTILE_RANK),
         fleet_max |-> series_max(err),
         fleet_count |-> nunique([i \in 1..Len(t) |-> t[i].BMU])]

\* one row of agg: the statistics of the rows of t whose Fuel is f
fuel_stats(t, f) ==
    LET g == SelectSeq(t, LAMBDA r : r.Fuel = f)
        err == [i \in 1..Len(g) |-> g[i].A_ABS_NetError_pct]
    IN  [Fuel |-> f,
         median_err |-> median(err),
         p90_err |-> nanpercentile(err, PERCENTILE_RANK),
         max_err |-> series_max(err),
         count |-> nunique([i \in 1..Len(g) |-> g[i].BMU])]

RECURSIVE insert_by_median(_, _)
\* sort_values("median_err"): ascending, NaN last, ties in group order
insert_by_median(x, s) ==
    IF s = <<>> THEN <<x>>
    ELSE IF Head(s).median_err = NULL
            \/ (x.median_err # NULL /\ x.median_err[1] < Head(s).median_err[1])
         THEN <<x>> \o s
         ELSE <<Head(s)>> \o insert_by_median(x, Tail(s))

RECURSIVE sort_by_median(_)
sort_by_median(s) ==
    IF s = <<>> THEN <<>>
    ELSE insert_by_median(s[Len(s)], sort_by_median(SubSeq(s, 1, Len(s) - 1)))

\* lines 350-360: groupby("Fuel").agg(...).reset_index().sort_values(...)
fuel_agg(t) ==
    LET ks == group_keys([i \in 1..Len(t) |-> t[i].Fuel])
    IN  sort_by_median([i \in 1..Len(ks) |-> fuel_stats(t, ks[i])])

\* np.nanpercentile(s.dropna(), 90) if s.dropna().size > 0 else np.nan
guarded_p90(s) ==
    IF Len(dropna(s)) > 0 THEN nanpercentile(s, PERCENTILE_RANK) ELSE NULL

\* variant: the attention count from the annual error alone
fuel_kpis_annual_only(annual, monthly, f) ==
    LET fuel_df_annual == SelectSeq(annual, LAMBDA r : r.Fuel = f)
        fuel_df_monthly == IF monthly # <<>> THEN SelectSeq(monthly, LAMBDA r : r.Fuel = f)
                           ELSE <<>>
        a_err == [i \in 1..Len(fuel_df_annual) |-> fuel_df_annual[i].A_ABS_NetError_pct]
        m_err == [i \in 1..Len(fuel_df_monthly) |-> fuel_df_monthly[i].M_ABS_NetError_pct]
        flagged == SelectSeq(fuel_df_annual, LAMBDA r :
                       ge(r.A_ABS_NetError_pct, ATTENTION_THRESHOLD, Scale))
    IN  [fuel_median |-> median(a_err),
         fuel_p90_annual |-> guarded_p90(a_err),
         monthly_available |-> fuel_df_monthly # <<>>,
         fuel_p90_monthly |-> IF fuel_df_monthly # <<>> THEN guarded_p90(m_err) ELSE NULL,
         fuel_bmu_count |-> nunique([i \in 1..Len(fuel_df_annual) |-> fuel_df_annual[i].BMU]),
         fuel_attention_count |-> nunique([i \in 1..Len(flagged) |-> flagged[i].BMU])]

\* lines 568-620: the KPIs of the selected fuel f, from the enriched annual
\* table and the monthly table; fuel_p90_monthly is None (monthly_available
\* false) when the fuel has no monthly row
fuel_kpis(annual, monthly, f) ==
    LET fuel_df_annual == SelectSeq(annual, LAMBDA r : r.Fuel = f)
        fuel_df_monthly == IF monthly # <<>> THEN SelectSeq(monthly, LAMBDA r : r.Fuel = f)
                           ELSE <<>>
        a_err == [i \in 1..Len(fuel_df_annual) |-> fuel_df_annual[i].A_ABS_NetError_pct]
        m_err == [i \in 1..Len(fuel_df_monthly) |-> fuel_df_monthly[i].M_ABS_NetError_pct]
        flagged == SelectSeq(fuel_df_annual, LAMBDA r :
                       \/ ge(r.A_ABS_NetError_pct, ATTENTION_THRESHOLD, Scale)
                       \/ ge(r.P90_monthly_error, ATTENTION_THRESHOLD, Scale * PctDen))
    IN  [fuel_median |-> median(a_err),
         fuel_p90_annual |-> guarded_p90(a_err),
         monthly_available |-> fuel_df_monthly # <<>>,
         fuel_p90_monthly |-> IF fuel_df_monthly # <<>> THEN guarded_p90(m_err) ELSE NULL,
         fuel_bmu_count |-> nunique([i \in 1..Len(fuel_df_annual) |-> fuel_df_annual[i].BMU]),
         fuel_attention_count |-> nunique([i \in 1..Len(flagged) |-> flagged[i].BMU])]

\* variant: bounds closed on the right
classify_band_closed(v) ==
    IF isna(v) THEN "Unknown"
    ELSE IF v[1] <= 1 * Scale THEN "0-1%"
    ELSE IF v[1] <= 2 * Scale THEN "1-2%"
    ELSE IF v[1] <= 4 * Scale THEN "2-4%"
    ELSE IF v[1] <= 10 * Scale THEN "4-10%"
    ELSE ">10%"

\* classify_band(v)
classify_band(v) ==
    IF isna(v) THEN "Unknown"
    ELSE IF lt(v, 1, Scale) THEN "0-1%"
    ELSE IF lt(v, 2, Scale) THEN "1-2%"
    ELSE IF lt(v, 4, Scale) THEN "2-4%"
    ELSE IF lt(v, 10, Scale) THEN "4-10%"
    ELSE ">10%"

\* filtered_annual["ErrorBand"] = filtered_annual["A_ABS_NetError%"].apply(classify_band)
add_error_band(r) ==
    [nationalGridBmUnit |-> r.nationalGridBmUnit,
     FUEL_I |-> r.FUEL_I,
     A_ABS_NetError_pct |-> r.A_ABS_NetError_pct,
     BMU |-> r.BMU, Fuel |-> r.Fuel,
     Year |-> r.Year, Grain |-> r.Grain,
     P90_monthly_error |-> r.P90_monthly_error,
     ErrorFlagValue |-> r.ErrorFlagValue,
     NeedsAttention |-> r.NeedsAttention,
     ErrorBand |-> classify_band(r.A_ABS_NetError_pct)]

(***************************************************************************)
(* Trading dashboard: names, rows and input domains                        *)
(***************************************************************************)
\* Interconnector names are character sequences, so that upper-casing and
\* the substring test of map_group are computed.
IFA1 == <<"I", "F", "A", "1">>
ifa2 == <<"i", "f", "a", "2">>
NEMO == <<"N", "E", "M", "O">>
IFA == <<"I", "F", "A">>
GLOBAL_NETWORK ==
    <<"G", "l", "o", "b", "a", "l", " ", "N", "e", "t", "w", "o", "r", "k",
      " ", "(", "A", "l", "l", ")">>

Lowers == <<"a", "b", "c", "d", "e", "f", "g", "h", "i", "j", "k", "l", "m",
            "n", "o", "p", "q", "r", "s", "t", "u", "v", "w", "x", "y", "z">>
Uppers == <<"A", "B", "C", "D", "E", "F", "G", "H", "I", "J", "K", "L", "M",
            "N", "O", "P", "Q", "R", "S", "T", "U", "V", "W", "X", "Y", "Z">>

\* str.upper()
upper(name) ==
    [i \in 1..Len(name) |->
        IF \E k \in 1..Len(Lowers) : Lowers[k] = name[i]
        THEN Uppers[CHOOSE k \in 1..Len(Lowers) : Lowers[k] = name[i]]
        ELSE name[i]]

\* `sub in text`
contains(text, sub) ==
    \E i \in 1..(Len(text) - Len(sub) + 1) : SubSeq(text, i, i + Len(sub) - 1) = sub

\* map_group(name)
map_group(name) == IF contains(upper(name), IFA) THEN IFA ELSE name

\* hours in a day: a timestamp is a number of hours, .dt.date its day number
\* and .dt.hour its hour of day
HoursPerDay == 24

\* a raw HourStartLocal cell that parses as the timestamp n
TsCell(n) == [t |-> "ts", n |-> n]

\* pd.to_datetime(col, errors="coerce", utc=True) on one cell
to_datetime(c) == IF c.t = "ts" THEN Some(c.n) ELSE NULL

TradeRaw(ts, ic, mw, dir, partial) ==
    [HourStartLocal |-> ts, Interconnector |-> ic, Trade_Abs_MW |-> mw,
     Trade_Direction |-> dir, IsPartialHour |-> partial]

\* required_cols of load_and_transform_data
required_cols == {"HourStartLocal", "Interconnector", "Trade_Abs_MW", "Trade_Direction",
                  "IsPartialHour", "Trade_Bucket_All"}

\* a source: a path or upload that reads or raises, with the columns of its
\* header and its rows
Source(readable, has_required, rows) ==
    [readable |-> readable,
     columns |-> IF has_required THEN required_cols ELSE required_cols \ {"Trade_Bucket_All"},
     rows |-> rows]

\* a readable source whose header lacks the column col
SourceLacking(col, rows) ==
    [readable |-> TRUE, columns |-> required_cols \ {col}, rows |-> rows]

MaxTradeRows == 2

\* rows a trading CSV may hold
TradeRawRows ==
    { TradeRaw(TsCell(0), IFA1, Some(600), "Import", FALSE),
      TradeRaw(TsCell(0), ifa2, Some(500), "Export", FALSE),
      TradeRaw(TsCell(1), NEMO, Some(600), "Import", TRUE),
      TradeRaw(TsCell(24), NEMO, Some(400), "Export", FALSE),
      TradeRaw(TxtCell, NEMO, Some(600), "Import", FALSE),
      TradeRaw(TsCell(25), IFA1, NULL, "Import", FALSE) }

\* a day on which two interconnectors trade 600 MW in each of the hours
\* 0..12: 26 interconnector-hours in 13 hours of the day
BusyDay ==
    [i \in 1..26 |->
        TradeRaw(TsCell((i - 1) \div 2), IF i % 2 = 1 THEN IFA1 ELSE NEMO,
                 Some(600), "Import", FALSE)]

TradeFiles == SeqsUpTo(TradeRawRows, MaxTradeRows) \cup {BusyDay}

\* local files found in the inputs folder
LocalPicks ==
    { << Source(TRUE, TRUE, << TradeRaw(TsCell(0), IFA1, Some(600), "Import", FALSE) >>),
         Source(TRUE, TRUE, << TradeRaw(TsCell(24), NEMO, Some(400), "Export", FALSE) >>) >>,
      << Source(FALSE, TRUE, <<>>),
         Source(TRUE, TRUE, << TradeRaw(TsCell(1), NEMO, Some(600), "Import", TRUE) >>) >>,
      << Source(TRUE, FALSE, << TradeRaw(TsCell(0), IFA1, Some(600), "Import", FALSE) >>) >> }

(***************************************************************************)
(* Trading dashboard: load_and_transform_data                              *)
(***************************************************************************)
\* fact_trades.dropna(subset=["HourStartLocal", "Trade_Abs_MW", "Interconnector"])
dropna_subset(t) ==
    SelectSeq(t, LAMBDA r : ~isna(r.HourStartLocal) /\ ~isna(r.Trade_Abs_MW)
                            /\ ~isna(r.Interconnector))

\* the derived columns of one row whose HourStartLocal is a timestamp
derive_columns(r) ==
    [HourStartLocal |-> r.HourStartLocal,
     Interconnector |-> r.Interconnector,
     Trade_Abs_MW |-> r.Trade_Abs_MW,
     Trade_Direction |-> r.Trade_Direction,
     IsPartialHour |-> r.IsPartialHour,
     Date |-> r.HourStartLocal[1] \div HoursPerDay,
     Hour |-> r.HourStartLocal[1] % HoursPerDay,
     Interconnector_Group |-> map_group(r.Interconnector)]

\* variant: one required column is enough
has_required_cols_any(src) == \E col \in required_cols : col \in src.columns

\* all(col in df.columns for col in required_cols)
has_required_cols(src) == \A col \in required_cols : col \in src.columns

\* load_and_transform_data(files_or_paths): a source whose read raises is
\* skipped by the except branch, one without the required columns by continue
load_and_transform_data(files_or_paths) ==
    LET ok == SelectSeq(files_or_paths, LAMBDA src : src.readable /\ has_required_cols(src))
        all_dfs == [k \in 1..Len(ok) |-> ok[k].rows]
        fact0 == concat(all_dfs)
        fact1 == [i \in 1..Len(fact0) |->
                     [fact0[i] EXCEPT !.HourStartLocal = to_datetime(fact0[i].HourStartLocal)]]
        fact2 == dropna_subset(fact1)
    IN  IF all_dfs = <<>> THEN <<>>
        ELSE [i \in 1..Len(fact2) |-> derive_columns(fact2[i])]

(***************************************************************************)
(* Trading dashboard: apply_filters                                        *)
(***************************************************************************)
\* the values of a column
column(t, c) == [i \in 1..Len(t) |-> t[i][c]]

Min(S) == CHOOSE x \in S : \A y \in S : x <= y
Max(S) == CHOOSE x \in S : \A y \in S : y <= x

\* variant: the Interconnector membership skipped for an empty selection
apply_filters_ics_optional(h, df, dr, groups_sel, ics_sel, dir_mode, inc_partial) ==
    LET t0 == h[df]
        t1 == IF Len(dr) = 2
              THEN take(t0, [i \in 1..Len(t0) |-> t0[i].Date >= dr[1] /\ t0[i].Date <= dr[2]])
              ELSE t0
        t2 == take(t1, [i \in 1..Len(t1) |-> isin(t1[i].Interconnector_Group, groups_sel)])
        t3 == IF ics_sel # {}
              THEN take(t2, [i \in 1..Len(t2) |-> isin(t2[i].Interconnector, ics_sel)])
              ELSE t2
        t4 == IF ~inc_partial THEN take(t3, [i \in 1..Len(t3) |-> t3[i].IsPartialHour = FALSE])
              ELSE t3
        t5 == IF dir_mode = "Import"
              THEN take(t4, [i \in 1..Len(t4) |-> t4[i].Trade_Direction = "Import"])
              ELSE IF dir_mode = "Export"
              THEN take(t4, [i \in 1..Len(t4) |-> t4[i].Trade_Direction = "Export"])
              ELSE t4
    IN  Append(h, t5)

\* variant: the upper date bound exclusive
apply_filters_date_exclusive(h, df, dr, groups_sel, ics_sel, dir_mode, inc_partial) ==
    LET t0 == h[df]
        t1 == IF Len(dr) = 2
              THEN take(t0, [i \in 1..Len(t0) |-> t0[i].Date >= dr[1] /\ t0[i].Date < dr[2]])
              ELSE t0
        t2 == take(t1, [i \in 1..Len(t1) |-> isin(t1[i].Interconnector_Group, groups_sel)])
        t3 == take(t2, [i \in 1..Len(t2) |-> isin(t2[i].Interconnector, ics_sel)])
        t4 == IF ~inc_partial THEN take(t3, [i \in 1..Len(t3) |-> t3[i].IsPartialHour = FALSE])
              ELSE t3
        t5 == IF dir_mode = "Import"
              THEN take(t4, [i \in 1..Len(t4) |-> t4[i].Trade_Direction = "Import"])
              ELSE IF dir_mode = "Export"
              THEN take(t4, [i \in 1..Len(t4) |-> t4[i].Trade_Direction = "Export"])
              ELSE t4
    IN  Append(h, t5)

\* apply_filters(df, dr, groups_sel, ics_sel, dir_mode, inc_partial): the
\* heap after the call; the returned frame is its last object.  dr is a
\* sequence; anything but a 2-element list or tuple has another length.
apply_filters(h, df, dr, groups_sel, ics_sel, dir_mode, inc_partial) ==
    LET h0 == copy(h, df)
        t0 == h0[Len(h0)]
        h1 == IF Len(dr) = 2
              THEN getitem_mask(h0, Len(h0),
                       [i \in 1..Len(t0) |-> t0[i].Date >= dr[1] /\ t0[i].Date <= dr[2]])
              ELSE h0
        t1 == h1[Len(h1)]
        h2 == getitem_mask(h1, Len(h1),
                  [i \in 1..Len(t1) |-> isin(t1[i].Interconnector_Group, groups_sel)])
        t2 == h2[Len(h2)]
        h3 == getitem_mask(h2, Len(h2),
                  [i \in 1..Len(t2) |-> isin(t2[i].Interconnector, ics_sel)])
        t3 == h3[Len(h3)]
        h4 == IF ~inc_partial
              THEN getitem_mask(h3, Len(h3), [i \in 1..Len(t3) |-> t3[i].IsPartialHour = FALSE])
              ELSE h3
        t4 == h4[Len(h4)]
        h5 == IF dir_mode = "Import"
              THEN getitem_mask(h4, Len(h4), [i \in 1..Len(t4) |-> t4[i].Trade_Direction = "Import"])
              ELSE IF dir_mode = "Export"
              THEN getitem_mask(h4, Len(h4), [i \in 1..Len(t4) |-> t4[i].Trade_Direction = "Export"])
              ELSE h4
    IN  \* the temporaries are unreferenced once the result is returned
        Append(SubSeq(h5, 1, Len(h)), h5[Len(h5)])

(***************************************************************************)
(* Trading dashboard: measures                                             *)
(***************************************************************************)
\* variant: rows at the threshold counted
get_measures_ge(df, threshold) ==
    LET subset == SelectSeq(df, LAMBDA r : r.Trade_Abs_MW[1] >= threshold)
        mw == [i \in 1..Len(subset) |-> subset[i].Trade_Abs_MW[1]]
    IN  [ic_hours_above |-> Len(subset),
         network_hours_above |-> nunique(column(subset, "HourStartLocal")),
         days_above |-> nunique(column(subset, "Date")),
         total_energy_mwh |-> series_sum(mw),
         avg_power_mw |-> IF Len(subset) > 0
                          THEN [num |-> series_sum(mw), den |-> Len(subset)]
                          ELSE [num |-> 0, den |-> 1]]

\* get_measures(df, threshold); the mean is kept as a fraction
get_measures(df, threshold) ==
    LET subset == SelectSeq(df, LAMBDA r : r.Trade_Abs_MW[1] > threshold)
        mw == [i \in 1..Len(subset) |-> subset[i].Trade_Abs_MW[1]]
    IN  [ic_hours_above |-> Len(subset),
         network_hours_above |-> nunique(column(subset, "HourStartLocal")),
         days_above |-> nunique(column(subset, "Date")),
         total_energy_mwh |-> series_sum(mw),
         avg_power_mw |-> IF Len(subset) > 0
                          THEN [num |-> series_sum(mw), den |-> Len(subset)]
                          ELSE [num |-> 0, den |-> 1]]

\* variant: the rows of a date counted, not its distinct hours
hours_over_threshold_size(t, threshold) ==
    LET above == SelectSeq(t, LAMBDA r : r.Trade_Abs_MW[1] > threshold)
        ks == sorted_values(Range(column(above, "Date")))
    IN  [i \in 1..Len(ks) |->
            [Date |-> ks[i],
             Hours_Over_Threshold |->
                 Len(SelectSeq(above, LAMBDA r : r.Date = ks[i]))]]

\* df[df["Trade_Abs_MW"] > mw_threshold].groupby("Date")["Hour"].nunique()
\* .reset_index(name="Hours Over Threshold")
hours_over_threshold(t, threshold) ==
    LET above == SelectSeq(t, LAMBDA r : r.Trade_Abs_MW[1] > threshold)
        ks == sorted_values(Range(column(above, "Date")))
    IN  [i \in 1..Len(ks) |->
            [Date |-> ks[i],
             Hours_Over_Threshold |->
                 nunique(column(SelectSeq(above, LAMBDA r : r.Date = ks[i]), "Hour"))]]

(***************************************************************************)
(* State                                                                   *)
(***************************************************************************)
VARIABLES
    app,              \* which program runs: "bmu", "trade" or a function harness
    pc,               \* position of the script run
    heap,             \* the DataFrame objects of the current run
    cache,            \* st.cache_data of the loader: set of [key, val]
    ingested,         \* the keys the loader's body has run for, in order
    reused,           \* this run's loader call was answered from the cache
    annual_file,      \* uploaded annual CSV (NULL: none), Some(rows)
    monthly_file,     \* uploaded monthly CSV
    df_annual,        \* references into heap; 0: unbound
    df_monthly,
    df_monthly_p90,
    filtered_annual,
    fuel_filter,      \* sidebar widgets
    bmu_filter,
    attention_only,
    fleet,            \* the fleet KPIs (NULL until computed)
    agg,              \* the per-fuel statistics (NULL until computed)
    selected_fuel,    \* the fuel chosen in the By-Technology section
    fuel_kpi,         \* the KPIs of the selected fuel (NULL until computed)
    uploaded_files,   \* trading dashboard: uploaded sources (a sequence)
    existing_paths,   \* local files present in the inputs folder
    fact_trades_raw,  \* references into heap; 0: unbound
    filtered_fact,
    focus_mode,       \* sidebar widgets of the trading dashboard
    mw_threshold,
    selected_groups,
    direction_mode,
    include_partial,
    measures,         \* get_measures of filtered_fact (NULL until computed)
    h_above_total,    \* ic_hours_above of fact_trades_raw (NULL until computed)
    daily_data,       \* Hours Over Threshold per date (NULL until computed)
    args,             \* a function called on its own: its arguments
    result,           \* and its return value (NULL before the call returns)
    outputs,          \* the outputs folder: set of [filename, content]
    exports           \* the exports made so far, in order, each with the
                      \* widget values it was made under

vars == <<app, pc, heap, cache, ingested, reused, annual_file, monthly_file, df_annual, df_monthly,
          df_monthly_p90, filtered_annual, fuel_filter, bmu_filter, attention_only,
          fleet, agg, selected_fuel, fuel_kpi,
          uploaded_files, existing_paths, fact_trades_raw, filtered_fact, focus_mode,
          mw_threshold, selected_groups, direction_mode, include_partial,
          measures, h_above_total, daily_data,
          args, result, outputs, exports>>

bmu_vars == <<annual_file, monthly_file, df_annual, df_monthly, df_monthly_p90,
              filtered_annual, fuel_filter, bmu_filter, attention_only, fleet, agg,
              selected_fuel, fuel_kpi>>

trade_vars == <<uploaded_files, existing_paths, fact_trades_raw, filtered_fact,
                focus_mode, mw_threshold, selected_groups, direction_mode,
                include_partial, measures, h_above_total, daily_data>>

fn_vars == <<args, result>>

export_vars == <<outputs, exports>>

\* the variables of a dashboard that is not running
BmuIdle ==
    /\ annual_file = NULL /\ monthly_file = NULL
    /\ df_annual = 0 /\ df_monthly = 0 /\ df_monthly_p90 = 0 /\ filtered_annual = 0
    /\ fuel_filter = {} /\ bmu_filter = {} /\ attention_only = FALSE
    /\ fleet = NULL /\ agg = NULL /\ selected_fuel = NULL /\ fuel_kpi = NULL

TradeIdle ==
    /\ uploaded_files = <<>> /\ existing_paths = <<>>
    /\ fact_trades_raw = 0 /\ filtered_fact = 0
    /\ focus_mode = GLOBAL_NETWORK /\ mw_threshold = 0
    /\ selected_groups = {} /\ direction_mode = "Both" /\ include_partial = FALSE
    /\ measures = NULL /\ h_above_total = NULL /\ daily_data = NULL

FnIdle == args = NULL /\ result = NULL

ExportIdle == outputs = {} /\ exports = <<>>

\* variant: nothing is ever found in the cache
cache_hit_never(key) == FALSE

\* @st.cache_data: the stored result for the key, if any
cache_hit(key) == \E e \in cache : e.key = key
cache_get(key) == (CHOOSE e \in cache : e.key = key).val

(***************************************************************************)
(* BMU dashboard: the script                                               *)
(***************************************************************************)
InitBmu ==
    /\ app = "bmu"
    /\ pc = "start"
    /\ heap = <<>>
    /\ cache = {} /\ ingested = <<>> /\ reused = FALSE
    /\ \/ /\ annual_file \in {NULL} \cup {Some(f) : f \in AnnualFiles \cup {UnreadableFile}}
          /\ monthly_file \in {NULL} \cup {Some(f) : f \in MonthlyPicks}
       \/ /\ annual_file \in {Some(f) : f \in AnnualPicks}
          /\ monthly_file \in {Some(f) : f \in MonthlyFiles}
    /\ df_annual = 0 /\ df_monthly = 0 /\ df_monthly_p90 = 0 /\ filtered_annual = 0
    /\ fuel_filter = {} /\ bmu_filter = {} /\ attention_only = FALSE
    /\ fleet = NULL /\ agg = NULL /\ selected_fuel = NULL /\ fuel_kpi = NULL
    /\ TradeIdle
    /\ FnIdle
    /\ ExportIdle

\* lines 232-235: stop until both files are uploaded
BmuUploadGate ==
    /\ app = "bmu" /\ pc = "start"
    /\ pc' = IF annual_file = NULL \/ monthly_file = NULL THEN "need_upload" ELSE "load"
    /\ UNCHANGED <<export_vars, app, heap, cache, ingested, reused, bmu_vars, trade_vars, fn_vars>>

\* lines 238-240: the loader raises; the uncaught exception ends the run and
\* nothing is cached
BmuLoadRaises ==
    /\ app = "bmu" /\ pc = "load"
    /\ ~cache_hit(<<annual_file, monthly_file>>)
    /\ load_accuracy_data_raises(<<annual_file[1]>>, <<monthly_file[1]>>)
    /\ pc' = "crashed"
    /\ UNCHANGED <<export_vars, app, heap, cache, ingested, reused, bmu_vars, trade_vars, fn_vars>>

\* variant: no stop on an empty annual table
BmuLoadNoStop ==
    /\ app = "bmu" /\ pc = "load"
    /\ cache_hit(<<annual_file, monthly_file>>)
           \/ ~load_accuracy_data_raises(<<annual_file[1]>>, <<monthly_file[1]>>)
    /\ LET key == <<annual_file, monthly_file>>
           val == IF cache_hit(key) THEN cache_get(key)
                  ELSE load_accuracy_data(<<annual_file[1]>>, <<monthly_file[1]>>)
       IN  /\ cache' = IF cache_hit(key) THEN cache ELSE cache \cup {[key |-> key, val |-> val]}
           /\ ingested' = IF cache_hit(key) THEN ingested ELSE Append(ingested, key)
           /\ reused' = cache_hit(key)
           /\ heap' = new_frame(new_frame(heap, val.annual), val.monthly)
           /\ df_annual' = Len(heap) + 1
           /\ df_monthly' = Len(heap) + 2
           /\ pc' = "enrich"
    /\ UNCHANGED <<export_vars, app, annual_file, monthly_file, df_monthly_p90, filtered_annual,
                   fuel_filter, bmu_filter, attention_only, fleet, agg, selected_fuel, fuel_kpi,
                   trade_vars, fn_vars>>

\* lines 237-247: the cached loader call and the empty-annual stop
BmuLoad ==
    /\ app = "bmu" /\ pc = "load"
    /\ cache_hit(<<annual_file, monthly_file>>)
           \/ ~load_accuracy_data_raises(<<annual_file[1]>>, <<monthly_file[1]>>)
    /\ LET key == <<annual_file, monthly_file>>
           val == IF cache_hit(key) THEN cache_get(key)
                  ELSE load_accuracy_data(<<annual_file[1]>>, <<monthly_file[1]>>)
       IN  /\ cache' = IF cache_hit(key) THEN cache ELSE cache \cup {[key |-> key, val |-> val]}
           /\ ingested' = IF cache_hit(key) THEN ingested ELSE Append(ingested, key)
           /\ reused' = cache_hit(key)
           /\ heap' = new_frame(new_frame(heap, val.annual), val.monthly)
           /\ df_annual' = Len(heap) + 1
           /\ df_monthly' = Len(heap) + 2
           /\ pc' = IF val.annual = <<>> THEN "no_data" ELSE "enrich"
    /\ UNCHANGED <<export_vars, app, annual_file, monthly_file, df_monthly_p90, filtered_annual,
                   fuel_filter, bmu_filter, attention_only, fleet, agg, selected_fuel, fuel_kpi,
                   trade_vars, fn_vars>>

\* lines 264-288: monthly P90 per BMU, left merge, attention flag
BmuEnrich ==
    /\ app = "bmu" /\ pc = "enrich"
    /\ LET p90 == monthly_p90(heap[df_monthly])
           h1 == new_frame(heap, p90)
           merged == merge_left(heap[df_annual], p90)
           h2 == new_frame(h1, merged)
           h3 == setitem(h2, Len(h2), [i \in 1..Len(merged) |-> add_flags(merged[i])])
       IN  /\ heap' = h3
           /\ df_monthly_p90' = Len(h1)
           /\ df_annual' = Len(h2)
    /\ pc' = "sidebar"
    /\ UNCHANGED <<export_vars, app, cache, ingested, reused, annual_file, monthly_file, df_monthly, filtered_annual,
                   fuel_filter, bmu_filter, attention_only, fleet, agg, selected_fuel, fuel_kpi,
                   trade_vars, fn_vars>>

\* variant: no stop on an empty filtered table
BmuFilterNoStop ==
    /\ app = "bmu" /\ pc = "sidebar"
    /\ \E fuels \in SUBSET unique(heap[df_annual], "Fuel"),
          bmus \in SUBSET unique(heap[df_annual], "BMU"),
          attention \in BOOLEAN :
          /\ fuel_filter' = fuels
          /\ bmu_filter' = bmus
          /\ attention_only' = attention
          /\ heap' = global_filters(heap, df_annual, fuels, bmus, attention)
    /\ filtered_annual' = Len(heap')
    /\ pc' = "summary"
    /\ UNCHANGED <<export_vars, app, cache, ingested, reused, annual_file, monthly_file, df_annual, df_monthly,
                   df_monthly_p90, fleet, agg, selected_fuel, fuel_kpi,
                   trade_vars, fn_vars>>

\* lines 290-318: the sidebar widgets, the global filters, the empty stop
BmuFilter ==
    /\ app = "bmu" /\ pc = "sidebar"
    /\ \E fuels \in SUBSET unique(heap[df_annual], "Fuel"),
          bmus \in SUBSET unique(heap[df_annual], "BMU"),
          attention \in BOOLEAN :
          /\ fuel_filter' = fuels
          /\ bmu_filter' = bmus
          /\ attention_only' = attention
          /\ heap' = global_filters(heap, df_annual, fuels, bmus, attention)
    /\ filtered_annual' = Len(heap')
    /\ pc' = IF heap'[filtered_annual'] = <<>> THEN "no_match" ELSE "summary"
    /\ UNCHANGED <<export_vars, app, cache, ingested, reused, annual_file, monthly_file, df_annual, df_monthly,
                   df_monthly_p90, fleet, agg, selected_fuel, fuel_kpi,
                   trade_vars, fn_vars>>

\* lines 325-360: the fleet KPIs of filtered_annual and the per-fuel
\* statistics, grouped from df_annual
BmuSummary ==
    /\ app = "bmu" /\ pc = "summary"
    /\ fleet' = Some(fleet_kpis(heap[filtered_annual]))
    /\ agg' = Some(fuel_agg(heap[df_annual]))
    /\ pc' = "overview"
    /\ UNCHANGED <<export_vars, app, heap, cache, ingested, reused, annual_file, monthly_file, df_annual, df_monthly,
                   df_monthly_p90, filtered_annual, fuel_filter, bmu_filter,
                   attention_only, selected_fuel, fuel_kpi, trade_vars, fn_vars>>

\* line 452: the ErrorBand column of the filtered table
BmuOverview ==
    /\ app = "bmu" /\ pc = "overview"
    /\ LET t == heap[filtered_annual]
       IN  heap' = setitem(heap, filtered_annual, [i \in 1..Len(t) |-> add_error_band(t[i])])
    /\ pc' = "by_technology"
    /\ UNCHANGED <<export_vars, app, cache, ingested, reused, bmu_vars, trade_vars, fn_vars>>

\* lines 555-641: the By-Technology section: the selected fuel, the stop on a
\* fuel without annual rows, the fuel's KPIs
BmuByTechnology ==
    /\ app = "bmu" /\ pc = "by_technology"
    /\ \E f \in unique(heap[df_annual], "Fuel") :
          /\ selected_fuel' = Some(f)
          /\ IF SelectSeq(heap[df_annual], LAMBDA r : r.Fuel = f) = <<>>
             THEN fuel_kpi' = NULL /\ pc' = "no_fuel_data"
             ELSE /\ fuel_kpi' = Some(fuel_kpis(heap[df_annual], heap[df_monthly], f))
                  /\ pc' = "done"
    /\ UNCHANGED <<export_vars, app, heap, cache, ingested, reused, annual_file, monthly_file, df_annual,
                   df_monthly, df_monthly_p90, filtered_annual, fuel_filter, bmu_filter,
                   attention_only, fleet, agg, trade_vars, fn_vars>>

\* a user interaction reruns the script from the top: the script's variables
\* are unbound again, the cache survives
BmuRerun ==
    /\ app = "bmu" /\ pc \in {"need_upload", "crashed", "no_data", "no_match", "no_fuel_data", "done"}
    /\ pc' = "start"
    /\ heap' = <<>>
    /\ df_annual' = 0 /\ df_monthly' = 0 /\ df_monthly_p90' = 0 /\ filtered_annual' = 0
    /\ fuel_filter' = {} /\ bmu_filter' = {} /\ attention_only' = FALSE
    /\ fleet' = NULL /\ agg' = NULL /\ selected_fuel' = NULL /\ fuel_kpi' = NULL
    /\ reused' = FALSE
    /\ UNCHANGED <<export_vars, app, cache, ingested, annual_file, monthly_file, trade_vars, fn_vars>>

\* the file the user uploads after clearing the annual uploader
ReuploadAnnual ==
    << AnnualRaw("E1", "GAS", NumCell(24 * Scale)), AnnualRaw("E2", "WIND", TxtCell) >>

\* lines 218-223: the user clears the annual uploader, which reruns the script
BmuClearUpload ==
    /\ app = "bmu" /\ pc \in {"need_upload", "crashed", "no_data", "no_match", "no_fuel_data", "done"}
    /\ annual_file # NULL
    /\ annual_file' = NULL
    /\ pc' = "start"
    /\ heap' = <<>>
    /\ df_annual' = 0 /\ df_monthly' = 0 /\ df_monthly_p90' = 0 /\ filtered_annual' = 0
    /\ fuel_filter' = {} /\ bmu_filter' = {} /\ attention_only' = FALSE
    /\ fleet' = NULL /\ agg' = NULL /\ selected_fuel' = NULL /\ fuel_kpi' = NULL
    /\ reused' = FALSE
    /\ UNCHANGED <<export_vars, app, cache, ingested, monthly_file, trade_vars, fn_vars>>

\* lines 218-223: the user uploads an annual file, which reruns the script
BmuUpload ==
    /\ app = "bmu" /\ pc \in {"need_upload", "crashed", "no_data", "no_match", "no_fuel_data", "done"}
    /\ annual_file = NULL
    /\ annual_file' = Some(ReuploadAnnual)
    /\ pc' = "start"
    /\ heap' = <<>>
    /\ df_annual' = 0 /\ df_monthly' = 0 /\ df_monthly_p90' = 0 /\ filtered_annual' = 0
    /\ fuel_filter' = {} /\ bmu_filter' = {} /\ attention_only' = FALSE
    /\ fleet' = NULL /\ agg' = NULL /\ selected_fuel' = NULL /\ fuel_kpi' = NULL
    /\ reused' = FALSE
    /\ UNCHANGED <<export_vars, app, cache, ingested, monthly_file, trade_vars, fn_vars>>

NextBmu ==
    \/ BmuUploadGate \/ BmuLoadRaises \/ BmuLoad \/ BmuEnrich \/ BmuFilter \/ BmuSummary
    \/ BmuOverview \/ BmuByTechnology \/ BmuRerun \/ BmuClearUpload \/ BmuUpload

SpecBmu == InitBmu /\ [][NextBmu]_vars

(***************************************************************************)
(* Trading dashboard: the script                                           *)
(***************************************************************************)
InitTrade ==
    /\ app = "trade"
    /\ pc = "start"
    /\ heap = <<>>
    /\ cache = {} /\ ingested = <<>> /\ reused = FALSE
    /\ \/ /\ uploaded_files \in {<<>>} \cup {<<Source(TRUE, TRUE, f)>> : f \in TradeFiles}
          /\ existing_paths = <<>>
       \/ /\ uploaded_files = <<>>
          /\ existing_paths \in LocalPicks
    /\ fact_trades_raw = 0 /\ filtered_fact = 0
    /\ focus_mode = GLOBAL_NETWORK /\ mw_threshold = 0
    /\ selected_groups = {} /\ direction_mode = "Both" /\ include_partial = FALSE
    /\ measures = NULL /\ h_above_total = NULL /\ daily_data = NULL
    /\ BmuIdle
    /\ FnIdle
    /\ ExportIdle

\* line 244: uploads take precedence over the local files
sources == IF uploaded_files # <<>> THEN uploaded_files ELSE existing_paths

\* lines 244-248: stop when there is no source at all
TradeSourceGate ==
    /\ app = "trade" /\ pc = "start"
    /\ pc' = IF sources = <<>> THEN "need_upload" ELSE "load"
    /\ UNCHANGED <<export_vars, app, heap, cache, ingested, reused, bmu_vars, trade_vars, fn_vars>>

\* lines 250-254: the cached loader call and the empty-table stop
TradeLoad ==
    /\ app = "trade" /\ pc = "load"
    /\ LET key == sources
           val == IF cache_hit(key) THEN cache_get(key) ELSE load_and_transform_data(sources)
       IN  /\ cache' = IF cache_hit(key) THEN cache ELSE cache \cup {[key |-> key, val |-> val]}
           /\ ingested' = IF cache_hit(key) THEN ingested ELSE Append(ingested, key)
           /\ reused' = cache_hit(key)
           /\ heap' = new_frame(heap, val)
           /\ fact_trades_raw' = Len(heap) + 1
           /\ pc' = IF val = <<>> THEN "no_data" ELSE "sidebar"
    /\ UNCHANGED <<export_vars, app, fn_vars, bmu_vars, uploaded_files, existing_paths, filtered_fact,
                   focus_mode, mw_threshold, selected_groups, direction_mode,
                   include_partial, measures, h_above_total, daily_data>>

\* the MW threshold the slider is set to (its default)
MwThresholds == {500}

\* lines 256-310: the sidebar widgets and the filtered working table
TradeFilter ==
    /\ app = "trade" /\ pc = "sidebar"
    /\ LET raw == heap[fact_trades_raw]
           ics == Range(column(raw, "Interconnector"))
           groups == Range(column(raw, "Interconnector_Group"))
           dates == Range(column(raw, "Date"))
       IN  \E focus \in {GLOBAL_NETWORK} \cup ics,
              threshold \in MwThresholds,
              sel \in SUBSET groups,
              direction \in {"Both", "Import", "Export"},
              partial \in BOOLEAN :
              LET is_single_ic == focus # GLOBAL_NETWORK
                  primary_ics == IF is_single_ic THEN {focus} ELSE ics
                  date_range == <<Min(dates), Max(dates)>>
              IN  /\ focus_mode' = focus
                  /\ mw_threshold' = threshold
                  /\ selected_groups' = sel
                  /\ direction_mode' = direction
                  /\ include_partial' = partial
                  /\ heap' = apply_filters(heap, fact_trades_raw, date_range, groups,
                                           primary_ics, direction, partial)
    /\ filtered_fact' = Len(heap')
    /\ pc' = "filtered"
    /\ UNCHANGED <<export_vars, app, cache, ingested, reused, fn_vars, bmu_vars, uploaded_files, existing_paths,
                   fact_trades_raw, measures, h_above_total, daily_data>>

\* lines 326-328: the measures of the filtered table and the baseline of
\* the whole table; no test of filtered_fact.empty comes before them
TradeMeasures ==
    /\ app = "trade" /\ pc = "filtered"
    /\ measures' = Some(get_measures(heap[filtered_fact], mw_threshold))
    /\ h_above_total' = Some(get_measures(heap[fact_trades_raw], mw_threshold).ic_hours_above)
    /\ pc' = "tabs"
    /\ UNCHANGED <<export_vars, app, heap, cache, ingested, reused, fn_vars, bmu_vars, uploaded_files, existing_paths,
                   fact_trades_raw, filtered_fact, focus_mode, mw_threshold,
                   selected_groups, direction_mode, include_partial, daily_data>>

\* lines 401-461: the daily tab; an empty filtered_fact shows "No data
\* matches current filters." in place of the daily aggregate
TradeTabs ==
    /\ app = "trade" /\ pc = "tabs"
    /\ daily_data' = IF heap[filtered_fact] # <<>>
                     THEN Some(hours_over_threshold(heap[filtered_fact], mw_threshold))
                     ELSE NULL
    /\ pc' = "done"
    /\ UNCHANGED <<export_vars, app, heap, cache, ingested, reused, fn_vars, bmu_vars, uploaded_files, existing_paths,
                   fact_trades_raw, filtered_fact, focus_mode, mw_threshold,
                   selected_groups, direction_mode, include_partial, measures,
                   h_above_total>>

\* a user interaction reruns the script from the top: the script's variables
\* are unbound again, the cache survives
TradeRerun ==
    /\ app = "trade" /\ pc \in {"need_upload", "no_data", "done"}
    /\ pc' = "start"
    /\ heap' = <<>>
    /\ fact_trades_raw' = 0 /\ filtered_fact' = 0
    /\ focus_mode' = GLOBAL_NETWORK /\ mw_threshold' = 0
    /\ selected_groups' = {} /\ direction_mode' = "Both" /\ include_partial' = FALSE
    /\ measures' = NULL /\ h_above_total' = NULL /\ daily_data' = NULL
    /\ reused' = FALSE
    /\ UNCHANGED <<export_vars, app, cache, ingested, fn_vars, bmu_vars, uploaded_files, existing_paths>>

\* the file the user uploads after clearing the uploader
ReuploadTrade ==
    << Source(TRUE, TRUE, << TradeRaw(TsCell(0), IFA1, Some(600), "Import", FALSE),
                             TradeRaw(TsCell(25), NEMO, Some(400), "Export", FALSE) >>) >>

\* line 242: the user clears the uploader, which reruns the script
TradeClearUpload ==
    /\ app = "trade" /\ pc \in {"need_upload", "no_data", "done"}
    /\ uploaded_files # <<>>
    /\ uploaded_files' = <<>>
    /\ pc' = "start"
    /\ heap' = <<>>
    /\ fact_trades_raw' = 0 /\ filtered_fact' = 0
    /\ focus_mode' = GLOBAL_NETWORK /\ mw_threshold' = 0
    /\ selected_groups' = {} /\ direction_mode' = "Both" /\ include_partial' = FALSE
    /\ measures' = NULL /\ h_above_total' = NULL /\ daily_data' = NULL
    /\ reused' = FALSE
    /\ UNCHANGED <<export_vars, app, cache, ingested, fn_vars, bmu_vars, existing_paths>>

\* line 242: the user uploads a file, which reruns the script
TradeUpload ==
    /\ app = "trade" /\ pc \in {"need_upload", "no_data", "done"}
    /\ uploaded_files = <<>>
    /\ uploaded_files' = ReuploadTrade
    /\ pc' = "start"
    /\ heap' = <<>>
    /\ fact_trades_raw' = 0 /\ filtered_fact' = 0
    /\ focus_mode' = GLOBAL_NETWORK /\ mw_threshold' = 0
    /\ selected_groups' = {} /\ direction_mode' = "Both" /\ include_partial' = FALSE
    /\ measures' = NULL /\ h_above_total' = NULL /\ daily_data' = NULL
    /\ reused' = FALSE
    /\ UNCHANGED <<export_vars, app, cache, ingested, fn_vars, bmu_vars, existing_paths>>

NextTrade ==
    \/ TradeSourceGate \/ TradeLoad \/ TradeFilter
    \/ TradeMeasures \/ TradeTabs \/ TradeRerun \/ TradeClearUpload \/ TradeUpload

SpecTrade == InitTrade /\ [][NextTrade]_vars

(***************************************************************************)
(* Trading dashboard: the exports of the Data Export tab                   *)
(***************************************************************************)
\* the literal parts of the export file names, as character sequences
GLOBAL_DISPLAY_NAME ==
    <<"G", "l", "o", "b", "a", "l", " ", "N", "e", "t", "w", "o", "r", "k">>
HIGH_CAPACITY_INFIX ==
    <<"_", "H", "i", "g", "h", "_", "C", "a", "p", "a", "c", "i", "t", "y",
      "_">>
MW_CSV ==
    <<"M", "W", ".", "c", "s", "v">>
FULL_REPORT_SUFFIX ==
    <<"_", "F", "u", "l", "l", "_", "R", "e", "p", "o", "r", "t", ".", "c",
      "s", "v">>
MASTER_FILENAME ==
    <<"F", "u", "l", "l", "_", "N", "e", "t", "w", "o", "r", "k", "_", "2",
      "0", "2", "5", "_", "M", "a", "s", "t", "e", "r", ".", "c", "s", "v">>

Digits == <<"0", "1", "2", "3", "4", "5", "6", "7", "8", "9">>

\* the decimal digits an f-string formats a non-negative int with
RECURSIVE str_int(_)
str_int(n) ==
    IF n < 10 THEN <<Digits[n + 1]>>
    ELSE str_int(n \div 10) \o <<Digits[(n % 10) + 1]>>

\* line 303: current_display_name
current_display_name(focus) ==
    IF focus # GLOBAL_NETWORK THEN focus ELSE GLOBAL_DISPLAY_NAME

\* line 559: f"{current_display_name}_High_Capacity_{mw_threshold}MW.csv"
high_capacity_filename(focus, threshold) ==
    current_display_name(focus) \o HIGH_CAPACITY_INFIX \o str_int(threshold) \o MW_CSV

\* line 566: f"{current_display_name}_Full_Report.csv"
full_report_filename(focus) == current_display_name(focus) \o FULL_REPORT_SUFFIX

\* lines 545-552: df.to_csv(os.path.join("outputs", filename)) replaces a
\* file of that name
save_to_outputs(dir, df, filename) ==
    {f \in dir : f.filename # filename} \cup {[filename |-> filename, content |-> df]}

\* the uploads the exports are made from
ExportFiles ==
    { << TradeRaw(TsCell(0), IFA1, Some(600), "Import", FALSE),
         TradeRaw(TsCell(1), IFA1, Some(450), "Export", TRUE) >>,
      << TradeRaw(TsCell(0), IFA1, Some(600), "Import", FALSE),
         TradeRaw(TsCell(1), NEMO, Some(450), "Export", FALSE) >> }

\* the positions the MW slider is set to
ExportThresholds == {400, 500}

\* the loaded table of a session; the outputs folder starts empty
InitExport ==
    /\ app = "trade"
    /\ pc = "export1"
    /\ cache = {} /\ ingested = <<>> /\ reused = FALSE
    /\ uploaded_files \in {<<Source(TRUE, TRUE, f)>> : f \in ExportFiles}
    /\ existing_paths = <<>>
    /\ heap = <<load_and_transform_data(uploaded_files)>>
    /\ fact_trades_raw = 1 /\ filtered_fact = 0
    /\ focus_mode = GLOBAL_NETWORK /\ mw_threshold = 0
    /\ selected_groups = {} /\ direction_mode = "Both" /\ include_partial = FALSE
    /\ measures = NULL /\ h_above_total = NULL /\ daily_data = NULL
    /\ BmuIdle
    /\ FnIdle
    /\ ExportIdle

\* one run of the script in which an export button is pressed: the widgets
\* (lines 256-276), the filtered table (line 310), the high-capacity subset
\* (line 555) and the button's save_to_outputs (lines 557-575)
TradeExport ==
    /\ app = "trade" /\ pc \in {"export1", "export2"}
    /\ LET raw == heap[fact_trades_raw]
           ics == Range(column(raw, "Interconnector"))
           groups == Range(column(raw, "Interconnector_Group"))
           dates == Range(column(raw, "Date"))
       IN  \E focus \in {GLOBAL_NETWORK} \cup ics,
              threshold \in ExportThresholds,
              direction \in {"Both", "Import", "Export"},
              partial \in BOOLEAN,
              button \in {"high_capacity", "full_report", "master"} :
              LET is_single_ic == focus # GLOBAL_NETWORK
                  primary_ics == IF is_single_ic THEN {focus} ELSE ics
                  date_range == <<Min(dates), Max(dates)>>
              IN  /\ focus_mode' = focus
                  /\ mw_threshold' = threshold
                  /\ direction_mode' = direction
                  /\ include_partial' = partial
                  /\ heap' = apply_filters(<<raw>>, 1, date_range, groups, primary_ics,
                                           direction, partial)
                  /\ filtered_fact' = Len(heap')
                  /\ LET high_cap_set ==
                             SelectSeq(heap'[filtered_fact'],
                                       LAMBDA r : r.Trade_Abs_MW[1] > threshold)
                         filename ==
                             CASE button = "high_capacity" ->
                                      high_capacity_filename(focus, threshold)
                               [] button = "full_report" -> full_report_filename(focus)
                               [] button = "master" -> MASTER_FILENAME
                         df == CASE button = "high_capacity" -> high_cap_set
                                 [] button = "full_report" -> heap'[filtered_fact']
                                 [] button = "master" -> raw
                     IN  /\ outputs' = save_to_outputs(outputs, df, filename)
                         /\ exports' = Append(exports,
                                              [button |-> button,
                                               filename |-> filename,
                                               content |-> df,
                                               focus_mode |-> focus,
                                               direction_mode |-> direction,
                                               include_partial |-> partial,
                                               mw_threshold |-> threshold])
    /\ pc' = IF pc = "export1" THEN "export2" ELSE "exported"
    /\ UNCHANGED <<app, cache, ingested, reused, fn_vars, bmu_vars, uploaded_files,
                   existing_paths, fact_trades_raw, selected_groups, measures,
                   h_above_total, daily_data>>

NextExport == TradeExport

SpecExport == InitExport /\ [][NextExport]_vars

(***************************************************************************)
(* Function calls on arbitrary arguments                                   *)
(***************************************************************************)
MaxBandPct == 12
MaxFilterRows == 2
MaxSourceRows == 2
MaxMeasureRows == 3

\* arguments of classify_band: null, and values at, next to and between the
\* whole percentages from -1 up
BandInputs ==
    {NULL} \cup {Some(b * Scale + d) : b \in -1..MaxBandPct, d \in {-1, 0, 1, Scale \div 2}}

\* tables apply_filters is called on: what the loader returns
FilterRows ==
    { TradeRaw(TsCell(0), IFA1, Some(600), "Import", FALSE),
      TradeRaw(TsCell(1), ifa2, Some(500), "Export", FALSE),
      TradeRaw(TsCell(24), NEMO, Some(400), "Export", TRUE) }

FilterTables ==
    { load_and_transform_data(<<Source(TRUE, TRUE, f)>>) : f \in SeqsUpTo(FilterRows, MaxFilterRows) }

FilterArgs ==
    [df : FilterTables,
     dr : {<<0, 0>>, <<0, 1>>, <<1, 1>>, <<0>>},
     groups_sel : SUBSET {IFA, NEMO},
     ics_sel : {{}, {IFA1}, {ifa2, NEMO}, {IFA1, ifa2, NEMO}},
     dir_mode : {"Both", "Import", "Export"},
     inc_partial : BOOLEAN]

\* lines 264-288 on the loader's tables: the enriched annual table
enrich(annual, monthly) ==
    LET merged == merge_left(annual, monthly_p90(monthly))
    IN  [i \in 1..Len(merged) |-> add_flags(merged[i])]

\* enriched tables the global filters are called on
EnrichedTables ==
    { enrich(load_annual_file(f), load_monthly_file(m)) :
          f \in SeqsUpTo(AnnualRawRows, MaxFilterRows),
          m \in {<<>>, <<MonthlyRaw("E1", "GAS", NumCell(26 * Scale))>>} }

GlobalFilterArgs ==
    [df : EnrichedTables,
     fuel_filter : SUBSET {"GAS", "WIND"},
     bmu_filter : {{}, {"E1"}, {"E2", "nan"}},
     attention_only : BOOLEAN]

\* source files handed to the loaders
AnnualSourceRows ==
    { AnnualRaw("E1", "GAS", NumCell(24 * Scale)),
      AnnualRaw("E2", "WIND", TxtCell),
      AnnualRaw("E3", "WIND", EmptyCell) }

MonthlySourceRows ==
    { MonthlyRaw("E1", "GAS", NumCell(20 * Scale)),
      MonthlyRaw("E2", "WIND", EmptyCell),
      MonthlyRaw("E3", "WIND", TxtCell) }

TradeSourceRows ==
    { TradeRaw(TsCell(0), IFA1, Some(600), "Import", FALSE),
      TradeRaw(TsCell(24), NEMO, Some(400), "Export", TRUE),
      TradeRaw(TxtCell, ifa2, Some(500), "Export", FALSE),
      TradeRaw(TsCell(1), NEMO, NULL, "Import", FALSE) }

\* source lists with a file that cannot be read
UnreadablePicks ==
    { <<UnreadableFile>>,
      <<UnreadableFile, <<AnnualRaw("E1", "GAS", NumCell(24 * Scale))>>>>,
      <<<<AnnualRaw("E1", "GAS", NumCell(24 * Scale))>>, UnreadableFile>> }

\* source lists with a source that raises or lacks a required column
SkippedPicks ==
    LET good == Source(TRUE, TRUE, <<TradeRaw(TsCell(0), IFA1, Some(600), "Import", FALSE)>>)
        rows == <<TradeRaw(TsCell(24), NEMO, Some(400), "Export", TRUE)>>
        skipped == {Source(FALSE, TRUE, <<>>)} \cup {SourceLacking(col, rows) : col \in required_cols}
    IN  {<<x>> : x \in skipped} \cup {<<x, good>> : x \in skipped}
        \cup {<<good, x>> : x \in skipped}
        \cup {<<x, y>> : x \in skipped, y \in {Source(FALSE, TRUE, <<>>)}}

\* the loaders are called with up to two sources
AccuracyArgs ==
    [annual_files : SeqsUpTo(SeqsUpTo(AnnualSourceRows, MaxSourceRows), 2),
     monthly_files : {<<>>}]
    \cup
    [annual_files : {<<>>},
     monthly_files : SeqsUpTo(SeqsUpTo(MonthlySourceRows, MaxSourceRows), 2)]
    \cup
    [annual_files : UnreadablePicks, monthly_files : {<<>>}]
    \cup
    [annual_files : {<<>>}, monthly_files : UnreadablePicks]

TradeArgs ==
    SeqsUpTo({Source(TRUE, TRUE, f) : f \in SeqsUpTo(TradeSourceRows, MaxSourceRows)}, 2)
    \cup SkippedPicks

\* tables get_measures is called on: what the loader returns, with rows
\* below, at and above the thresholds, in one hour, one day and two days
MeasureRows ==
    { TradeRaw(TsCell(0), IFA1, Some(600), "Import", FALSE),
      TradeRaw(TsCell(0), NEMO, Some(600), "Export", FALSE),
      TradeRaw(TsCell(1), ifa2, Some(500), "Export", FALSE),
      TradeRaw(TsCell(2), IFA1, Some(400), "Import", FALSE),
      TradeRaw(TsCell(24), NEMO, Some(501), "Export", TRUE) }

MeasureArgs ==
    [df : { load_and_transform_data(<<Source(TRUE, TRUE, f)>>) :
                f \in SeqsUpTo(MeasureRows, MaxMeasureRows) },
     threshold : {0, 400, 500}]

(***************************************************************************)
(* BMU dashboard: the date columns of the monthly loader                   *)
(***************************************************************************)
\* the date columns depend on the year_month column alone; a year_month
\* cell is the text read from the CSV, the empty sequence for an empty cell
NAN_TEXT == <<"n", "a", "n">>

\* line 163: df["year_month"].astype(str)
astype_str_text(c) == IF c = <<>> THEN NAN_TEXT ELSE c

is_digit(c) == \E k \in 1..Len(Digits) : Digits[k] = c

\* int() of a sequence of decimal digits
RECURSIVE int_of(_)
int_of(ds) ==
    IF ds = <<>> THEN 0
    ELSE 10 * int_of(SubSeq(ds, 1, Len(ds) - 1))
         + (CHOOSE k \in 1..Len(Digits) : Digits[k] = ds[Len(ds)]) - 1

\* variant: a zero is put in front of every month token
year_month_fixed_always(s) ==
    LET n == Len(s)
        hy == {k \in 1..n : s[k] = "-"}
    IN  IF hy = {} THEN s
        ELSE LET k == Max(hy) IN SubSeq(s, 1, k) \o <<"0">> \o SubSeq(s, k + 1, n)

\* lines 164-166: str.replace(r"-(\d)$", r"-0\1", regex=True): a hyphen
\* followed by one digit at the end of the text gets a zero in between
year_month_fixed(s) ==
    LET n == Len(s)
    IN  IF n >= 2 /\ s[n - 1] = "-" /\ is_digit(s[n])
        THEN SubSeq(s, 1, n - 2) \o <<"-", "0", s[n]>>
        ELSE s

\* the directive %m: 1[0-2] | 0[1-9] | [1-9]
matches_m(tok) ==
    \/ Len(tok) = 2 /\ tok[1] = "1" /\ tok[2] \in {"0", "1", "2"}
    \/ Len(tok) = 2 /\ tok[1] = "0" /\ is_digit(tok[2]) /\ tok[2] # "0"
    \/ Len(tok) = 1 /\ is_digit(tok[1]) /\ tok[1] # "0"

\* lines 167-169: pd.to_datetime(s, format="%Y-%m", errors="coerce"): the
\* whole text must be four digits, a hyphen and a month; NaT otherwise
to_datetime_ym(s) ==
    IF /\ Len(s) \in {6, 7}
       /\ \A k \in 1..4 : is_digit(s[k])
       /\ s[5] = "-"
       /\ matches_m(SubSeq(s, 6, Len(s)))
    THEN Some([year |-> int_of(SubSeq(s, 1, 4)), month |-> int_of(SubSeq(s, 6, Len(s)))])
    ELSE NULL

MonthNames ==
    <<"January", "February", "March", "April", "May", "June", "July",
      "August", "September", "October", "November", "December">>

\* lines 170-172: .dt.year, .dt.month, .dt.month_name(); null for NaT
dt_year(ts) == IF ts = NULL THEN NULL ELSE Some(ts[1].year)
dt_month(ts) == IF ts = NULL THEN NULL ELSE Some(ts[1].month)
dt_month_name(ts) == IF ts = NULL THEN NULL ELSE Some(MonthNames[ts[1].month])

\* lines 163-172 on the year_month column of a monthly file: one row per
\* cell, none dropped
monthly_dates(col) ==
    [i \in 1..Len(col) |->
        LET ym == astype_str_text(col[i])
            fixed == year_month_fixed(ym)
            ts == to_datetime_ym(fixed)
        IN  [year_month |-> ym,
             year_month_fixed |-> fixed,
             YearMonth |-> ts,
             Year |-> dt_year(ts),
             Month |-> dt_month(ts),
             MonthName |-> dt_month_name(ts)]]

MaxYearMonthRows == 2

\* year_month cells: year and month tokens joined by a hyphen, an empty
\* cell, a year alone and month-name texts
YearTokens == {<<"2", "0", "2", "4">>, <<"2", "0", "2", "5">>, <<"2", "5">>}
MonthTokens ==
    {<<"0">>,
     <<"1">>,
     <<"3">>,
     <<"9">>,
     <<"0", "0">>,
     <<"0", "1">>,
     <<"0", "9">>,
     <<"1", "0">>,
     <<"1", "2">>,
     <<"1", "3">>}
YearMonthCells ==
    {y \o <<"-">> \o m : y \in YearTokens, m \in MonthTokens}
    \cup {<<>>, <<"2", "0", "2", "5">>, <<"J", "a", "n", "-", "5">>, <<"J", "a", "n", "-", "2", "5">>}

YearMonthArgs == SeqsUpTo(YearMonthCells, MaxYearMonthRows)

InitFn ==
    /\ pc = "call"
    /\ cache = {} /\ ingested = <<>> /\ reused = FALSE
    /\ result = NULL
    /\ \/ /\ app = "classify_band"
          /\ args \in BandInputs
          /\ heap = <<>>
       \/ /\ app = "apply_filters"
          /\ args \in FilterArgs
          /\ heap = <<args.df>>
       \/ /\ app = "global_filters"
          /\ args \in GlobalFilterArgs
          /\ heap = <<args.df>>
       \/ /\ app = "get_measures"
          /\ args \in MeasureArgs
          /\ heap = <<args.df>>
       \/ /\ app = "load_accuracy_data"
          /\ args \in AccuracyArgs
          /\ heap = <<>>
       \/ /\ app = "load_and_transform_data"
          /\ args \in TradeArgs
          /\ heap = <<>>
       \/ /\ app = "monthly_dates"
          /\ args \in YearMonthArgs
          /\ heap = <<>>
    /\ BmuIdle
    /\ TradeIdle
    /\ ExportIdle

\* classify_band(v)
CallClassifyBand ==
    /\ app = "classify_band" /\ pc = "call"
    /\ result' = classify_band(args)
    /\ pc' = "return"
    /\ UNCHANGED <<export_vars, app, heap, cache, ingested, reused, args, bmu_vars, trade_vars>>

\* apply_filters(df, dr, groups_sel, ics_sel, dir_mode, inc_partial) on the
\* frame at heap[1], and then again, with the same arguments, on the frame
\* it returned; result refers to the frame the first call returned
CallApplyFilters ==
    /\ app = "apply_filters" /\ pc \in {"call", "return"}
    /\ heap' = apply_filters(heap, IF pc = "call" THEN 1 ELSE result, args.dr,
                             args.groups_sel, args.ics_sel, args.dir_mode,
                             args.inc_partial)
    /\ result' = IF pc = "call" THEN Len(heap') ELSE result
    /\ pc' = IF pc = "call" THEN "return" ELSE "return2"
    /\ UNCHANGED <<export_vars, app, cache, ingested, reused, args, bmu_vars, trade_vars>>

\* lines 305-313 on the frame at heap[1], and then the same filters again on
\* the filtered frame; result refers to the frame of the first pass
CallGlobalFilters ==
    /\ app = "global_filters" /\ pc \in {"call", "return"}
    /\ heap' = global_filters(heap, IF pc = "call" THEN 1 ELSE result, args.fuel_filter,
                              args.bmu_filter, args.attention_only)
    /\ result' = IF pc = "call" THEN Len(heap') ELSE result
    /\ pc' = IF pc = "call" THEN "return" ELSE "return2"
    /\ UNCHANGED <<export_vars, app, cache, ingested, reused, args, bmu_vars, trade_vars>>

\* get_measures(df, threshold) on the frame at heap[1]
CallGetMeasures ==
    /\ app = "get_measures" /\ pc = "call"
    /\ result' = get_measures(heap[1], args.threshold)
    /\ pc' = "return"
    /\ UNCHANGED <<export_vars, app, heap, cache, ingested, reused, args, bmu_vars, trade_vars>>

\* load_accuracy_data(annual_files, monthly_files) raises
CallLoadAccuracyRaises ==
    /\ app = "load_accuracy_data" /\ pc = "call"
    /\ load_accuracy_data_raises(args.annual_files, args.monthly_files)
    /\ pc' = "raised"
    /\ UNCHANGED <<export_vars, app, heap, cache, ingested, reused, args, result, bmu_vars, trade_vars>>

\* load_accuracy_data(annual_files, monthly_files)
CallLoadAccuracy ==
    /\ app = "load_accuracy_data" /\ pc = "call"
    /\ ~load_accuracy_data_raises(args.annual_files, args.monthly_files)
    /\ result' = load_accuracy_data(args.annual_files, args.monthly_files)
    /\ pc' = "return"
    /\ UNCHANGED <<export_vars, app, heap, cache, ingested, reused, args, bmu_vars, trade_vars>>

\* load_and_transform_data(files_or_paths)
CallLoadTrades ==
    /\ app = "load_and_transform_data" /\ pc = "call"
    /\ result' = load_and_transform_data(args)
    /\ pc' = "return"
    /\ UNCHANGED <<export_vars, app, heap, cache, ingested, reused, args, bmu_vars, trade_vars>>

\* lines 163-172 on a year_month column
CallMonthlyDates ==
    /\ app = "monthly_dates" /\ pc = "call"
    /\ result' = monthly_dates(args)
    /\ pc' = "return"
    /\ UNCHANGED <<export_vars, app, heap, cache, ingested, reused, args, bmu_vars, trade_vars>>

NextFn ==
    \/ CallClassifyBand \/ CallApplyFilters \/ CallGlobalFilters \/ CallGetMeasures
    \/ CallLoadAccuracyRaises \/ CallLoadAccuracy \/ CallLoadTrades
    \/ CallMonthlyDates

SpecFn == InitFn /\ [][NextFn]_vars

(***************************************************************************)
(* Both dashboards                                                         *)
(***************************************************************************)
Init == InitBmu \/ InitTrade

Next == NextBmu \/ NextTrade

Spec == Init /\ [][Next]_vars

(***************************************************************************)
(* Properties                                                              *)
(***************************************************************************)
\* positions of the BMU script at which df_annual is the enriched table
EnrichedPcs == {"sidebar", "no_match", "summary", "overview", "by_technology", "done"}

\* C1: for every annual row, NeedsAttention is a boolean, true exactly when
\* A_ABS_NetError% is non-null and >= 25 or P90_monthly_error is non-null
\* and >= 25; (24, 26) is flagged and (24, null) is not.
C1_AttentionFlag ==
    (app = "bmu" /\ pc \in EnrichedPcs) =>
        \A i \in 1..Len(heap[df_annual]) :
            LET r == heap[df_annual][i]
                a == r.A_ABS_NetError_pct
                p == r.P90_monthly_error
            IN  /\ r.NeedsAttention \in BOOLEAN
                /\ r.NeedsAttention <=>
                       \/ (a # NULL /\ a[1] >= 25 * Scale)
                       \/ (p # NULL /\ p[1] >= 25 * Scale * PctDen)
                /\ (a = Some(24 * Scale) /\ p = Some(26 * Scale * PctDen)) => r.NeedsAttention
                /\ (a = Some(24 * Scale) /\ p = NULL) => ~r.NeedsAttention

\* C1 witness: a row with error 24 and P90 26 is flagged next to a row with
\* both measures null that is not.
C1_Witness ==
    /\ app = "bmu" /\ pc \in EnrichedPcs
    /\ \E i, j \in 1..Len(heap[df_annual]) :
          /\ heap[df_annual][i].A_ABS_NetError_pct = Some(24 * Scale)
          /\ heap[df_annual][i].P90_monthly_error = Some(26 * Scale * PctDen)
          /\ heap[df_annual][i].NeedsAttention
          /\ heap[df_annual][j].A_ABS_NetError_pct = NULL
          /\ heap[df_annual][j].P90_monthly_error = NULL
          /\ ~heap[df_annual][j].NeedsAttention

\* the k-th smallest (k = 1..Len) of a sequence of integers, by counting
OrderStat(vals, k) ==
    CHOOSE v \in Range(vals) :
        /\ Cardinality({i \in 1..Len(vals) : vals[i] < v}) < k
        /\ k <= Cardinality({i \in 1..Len(vals) : vals[i] <= v})

\* the 90th percentile (times PctDen) of a non-empty sequence of integers:
\* linear interpolation between the order statistics around 0.9 * (n - 1)
Percentile90(vals) ==
    LET n == Len(vals)
        lo == (90 * (n - 1)) \div 100
        fr == (90 * (n - 1)) % 100
        xlo == OrderStat(vals, lo + 1)
        xhi == OrderStat(vals, IF lo + 2 <= n THEN lo + 2 ELSE n)
    IN  100 * xlo + fr * (xhi - xlo)

\* the non-null M_ABS_NetError% values of the monthly rows of BMU b
NonNullMonthly(b) ==
    LET g == SelectSeq(heap[df_monthly],
                       LAMBDA r : r.BMU = b /\ r.M_ABS_NetError_pct # NULL)
    IN  [i \in 1..Len(g) |-> g[i].M_ABS_NetError_pct[1]]

\* C3: the P90 table has exactly one row per distinct BMU of the monthly
\* table and no other row; its value is the 90th percentile of the BMU's
\* non-null values, and null when the BMU has none.
C3_MonthlyP90 ==
    (app = "bmu" /\ pc \in EnrichedPcs) =>
        LET m == heap[df_monthly]
            p == heap[df_monthly_p90]
        IN  /\ \A i \in 1..Len(m) :
                   Cardinality({j \in 1..Len(p) : p[j].BMU = m[i].BMU}) = 1
            /\ \A j \in 1..Len(p) :
                   /\ \E i \in 1..Len(m) : m[i].BMU = p[j].BMU
                   /\ LET vals == NonNullMonthly(p[j].BMU)
                      IN  p[j].P90_monthly_error =
                              IF vals = <<>> THEN NULL ELSE Some(Percentile90(vals))

\* C3 witness: E1 has the six observations 10, 20, 30, 40, 50 and a null,
\* and its P90 is 46.
C3_Witness ==
    /\ app = "bmu" /\ pc \in EnrichedPcs
    /\ Len(SelectSeq(heap[df_monthly], LAMBDA r : r.BMU = "E1")) = 6
    /\ Range(NonNullMonthly("E1")) = {10 * Scale, 20 * Scale, 30 * Scale, 40 * Scale, 50 * Scale}
    /\ Len(NonNullMonthly("E1")) = 5
    /\ \E j \in 1..Len(heap[df_monthly_p90]) :
          /\ heap[df_monthly_p90][j].BMU = "E1"
          /\ heap[df_monthly_p90][j].P90_monthly_error = Some(46 * Scale * PctDen)

\* a row of the filtered table without the later ErrorBand column
WithoutBand(r) == [c \in DOMAIN r \ {"ErrorBand"} |-> r[c]]

\* C4: the filtered table is exactly the annual rows whose Fuel is selected,
\* whose BMU is selected when the BMU selection is non-empty, and that need
\* attention when attention_only is set; an empty fuel selection gives zero
\* rows, an empty BMU selection filters nothing.
C4_GlobalFilter ==
    (app = "bmu" /\ pc \in {"no_match", "overview", "done"}) =>
        LET a == heap[df_annual]
            f == heap[filtered_annual]
            want == SelectSeq(a, LAMBDA r :
                        /\ r.Fuel \in fuel_filter
                        /\ (bmu_filter # {} => r.BMU \in bmu_filter)
                        /\ (attention_only => r.NeedsAttention))
        IN  /\ [i \in 1..Len(f) |-> WithoutBand(f[i])] = want
            /\ fuel_filter = {} => f = <<>>
            /\ (bmu_filter = {} /\ ~attention_only) =>
                   Len(f) = Cardinality({i \in 1..Len(a) : a[i].Fuel \in fuel_filter})

\* C4 witness: with an empty BMU selection the rows of two different BMUs
\* are kept.
C4_Witness ==
    /\ app = "bmu" /\ pc = "overview"
    /\ bmu_filter = {}
    /\ \E i, j \in 1..Len(heap[filtered_annual]) :
          heap[filtered_annual][i].BMU # heap[filtered_annual][j].BMU
\* the five band labels
BandLabels == {"0-1%", "1-2%", "2-4%", "4-10%", ">10%"}

\* C2 (as amended): classify_band maps null to "Unknown" and every non-null
\* value to exactly one of the five labels: below 1 (negative values
\* included) "0-1%", [1,2) "1-2%", [2,4) "2-4%", [4,10) "4-10%", 10 and above
\* ">10%"; 2.0 and 3.9999 are "2-4%", 4.0 is "4-10%".
C2_ClassifyBand ==
    (app = "classify_band" /\ pc = "return") =>
        /\ args = NULL <=> result = "Unknown"
        /\ args # NULL =>
              LET v == args[1]
              IN  /\ result \in BandLabels
                  /\ result = "0-1%" <=> v < 1 * Scale
                  /\ result = "1-2%" <=> (1 * Scale <= v /\ v < 2 * Scale)
                  /\ result = "2-4%" <=> (2 * Scale <= v /\ v < 4 * Scale)
                  /\ result = "4-10%" <=> (4 * Scale <= v /\ v < 10 * Scale)
                  /\ result = ">10%" <=> 10 * Scale <= v
        /\ args = Some(20000) => result = "2-4%"
        /\ args = Some(39999) => result = "2-4%"
        /\ args = Some(40000) => result = "4-10%"

\* C2 witness: 3.9999 has been classified "2-4%".
C2_Witness ==
    app = "classify_band" /\ pc = "return" /\ args = Some(39999) /\ result = "2-4%"

\* C2 as stated: the first band is the half-open interval [0,1), so that a
\* value is labelled "0-1%" exactly when it lies in it.
C2_Original ==
    (app = "classify_band" /\ pc = "return" /\ args # NULL) =>
        (result = "0-1%" <=> (0 <= args[1] /\ args[1] < 1 * Scale))

\* the rows of table t that pass every predicate of apply_filters but the
\* Interconnector membership
PassesOthers(r, a) ==
    /\ Len(a.dr) = 2 => (a.dr[1] <= r.Date /\ r.Date <= a.dr[2])
    /\ r.Interconnector_Group \in a.groups_sel
    /\ (~a.inc_partial) => r.IsPartialHour = FALSE
    /\ a.dir_mode \in {"Import", "Export"} => r.Trade_Direction = a.dir_mode

C6_SelectedGroups ==
    (app = "trade" /\ pc \in {"filtered", "tabs", "done"}) =>
        \A i \in 1..Len(heap[filtered_fact]) :
            heap[filtered_fact][i].Interconnector_Group \in selected_groups

\* C7: apply_filters returns exactly the input rows, in input order, that
\* satisfy all active predicates: the inclusive date range (a 2-element dr
\* only), group and interconnector membership, non-partial hours unless
\* inc_partial, and the direction when dir_mode is Import or Export.
C7_ApplyFilters ==
    (app = "apply_filters" /\ pc = "return") =>
        heap[result] =
            SelectSeq(args.df, LAMBDA r :
                /\ Len(args.dr) = 2 => (args.dr[1] <= r.Date /\ r.Date <= args.dr[2])
                /\ r.Interconnector_Group \in args.groups_sel
                /\ r.Interconnector \in args.ics_sel
                /\ (args.inc_partial \/ r.IsPartialHour = FALSE)
                /\ (args.dir_mode = "Import" => r.Trade_Direction = "Import")
                /\ (args.dir_mode = "Export" => r.Trade_Direction = "Export"))

\* C7 witness: a date range with distinct bounds returns a row dated at its
\* lower bound and a row dated at its upper bound.
C7_Witness ==
    /\ app = "apply_filters" /\ pc = "return"
    /\ Len(args.dr) = 2 /\ args.dr[1] < args.dr[2]
    /\ \E i, j \in 1..Len(heap[result]) :
          heap[result][i].Date = args.dr[1] /\ heap[result][j].Date = args.dr[2]

\* C8: a filter step and every later step leave the filtered table
\* (df_annual, fact_trades_raw), the frame the loader returned and the
\* loader's cache as they were.
C8_NoMutation ==
    [][ /\ (app = "bmu" /\ pc \in {"sidebar", "summary", "overview", "by_technology"}) =>
              /\ heap'[df_annual] = heap[df_annual]
              /\ heap'[1] = heap[1]
              /\ cache' = cache
        /\ (app = "trade" /\ pc \in {"sidebar", "filtered", "tabs"}) =>
              /\ heap'[fact_trades_raw] = heap[fact_trades_raw]
              /\ heap'[1] = heap[1]
              /\ cache' = cache ]_vars

\* C8 witness: the BMU run has filtered rows out and added the band column.
C8_Witness ==
    /\ app = "bmu" /\ pc = "done"
    /\ Len(heap[filtered_annual]) < Len(heap[df_annual])

\* all rows of a sequence of sources, in source order
AllRows(files) == IF Len(files) = 0 THEN <<>>
                  ELSE IF Len(files) = 1 THEN files[1]
                  ELSE files[1] \o files[2]

\* the sources the trading loader ingests
Ingested(srcs) == SelectSeq(srcs, LAMBDA x : x.readable /\ required_cols \subseteq x.columns)

TradeRows(srcs) == AllRows([k \in 1..Len(Ingested(srcs)) |-> Ingested(srcs)[k].rows])

\* a raw trading row survives the loader
Survives(r) ==
    r.HourStartLocal.t = "ts" /\ r.Trade_Abs_MW # NULL /\ r.Interconnector # NULL

\* C9 (as amended): in load_accuracy_data a cell that fails numeric coercion
\* becomes null, never zero, and its row is retained; load_and_transform_data
\* drops every row whose HourStartLocal fails date coercion (and every row
\* with a null Trade_Abs_MW or Interconnector) and substitutes no value.
C9_CoercionFailure ==
    /\ (app = "load_accuracy_data" /\ pc = "return") =>
          LET ra == AllRows(args.annual_files)
              rm == AllRows(args.monthly_files)
          IN  /\ Len(result.annual) = Len(ra)
              /\ Len(result.monthly) = Len(rm)
              /\ \A i \in 1..Len(ra) :
                     ra[i].A_ABS_NetError_pct.t # "num" =>
                         result.annual[i].A_ABS_NetError_pct = NULL
              /\ \A i \in 1..Len(rm) :
                     rm[i].M_ABS_NetError_pct.t # "num" =>
                         result.monthly[i].M_ABS_NetError_pct = NULL
    /\ (app = "load_and_transform_data" /\ pc = "return") =>
          LET raw == TradeRows(args)
          IN  /\ Len(result) = Cardinality({i \in 1..Len(raw) : Survives(raw[i])})
              /\ \A j \in 1..Len(result) :
                     \E i \in 1..Len(raw) :
                         /\ raw[i].HourStartLocal = TsCell(result[j].HourStartLocal[1])
                         /\ raw[i].Interconnector = result[j].Interconnector

\* C9 witness: the trading loader has returned fewer rows than it read,
\* having read a row whose HourStartLocal is no timestamp.
C9_Witness ==
    /\ app = "load_and_transform_data" /\ pc = "return"
    /\ result # <<>>
    /\ \E i \in 1..Len(TradeRows(args)) :
          /\ TradeRows(args)[i].HourStartLocal = TxtCell
          /\ TradeRows(args)[i].Trade_Abs_MW # NULL

\* C9 as stated: no ingestion path drops a row because one of its cells
\* failed coercion.
C9_Original ==
    /\ (app = "load_accuracy_data" /\ pc = "return") =>
          /\ Len(result.annual) = Len(AllRows(args.annual_files))
          /\ Len(result.monthly) = Len(AllRows(args.monthly_files))
    /\ (app = "load_and_transform_data" /\ pc = "return") =>
          Len(result) >=
              Cardinality({i \in 1..Len(TradeRows(args)) :
                              /\ TradeRows(args)[i].Trade_Abs_MW # NULL
                              /\ TradeRows(args)[i].Interconnector # NULL})

\* the identifying cells of a loaded or raw row
AccuracyIds(t) == [i \in 1..Len(t) |-> <<t[i].nationalGridBmUnit, t[i].FUEL_I>>]
TradeIds(t) ==
    [i \in 1..Len(t) |-> <<t[i].Interconnector, t[i].Trade_Abs_MW, t[i].Trade_Direction>>]

\* C10 (as amended): for two sources load_accuracy_data returns the first
\* source's rows followed by the second's, in source order, so the count is
\* the sum; load_and_transform_data returns, in that same order, only the
\* rows with a parsable HourStartLocal and non-null Trade_Abs_MW and
\* Interconnector, so its count is the number of such rows.
C10_Concatenation ==
    /\ (app = "load_accuracy_data" /\ pc = "return" /\ Len(args.annual_files) = 2) =>
          /\ AccuracyIds(result.annual)
                 = AccuracyIds(args.annual_files[1] \o args.annual_files[2])
          /\ Len(result.annual) = Len(args.annual_files[1]) + Len(args.annual_files[2])
    /\ (app = "load_accuracy_data" /\ pc = "return" /\ Len(args.monthly_files) = 2) =>
          /\ AccuracyIds(result.monthly)
                 = AccuracyIds(args.monthly_files[1] \o args.monthly_files[2])
          /\ Len(result.monthly) = Len(args.monthly_files[1]) + Len(args.monthly_files[2])
    /\ (app = "load_and_transform_data" /\ pc = "return" /\ Len(Ingested(args)) = 2) =>
          TradeIds(result)
              = TradeIds(SelectSeq(args[1].rows \o args[2].rows, Survives))

\* C10 witness: two non-empty annual sources with different rows have been
\* loaded.
C10_Witness ==
    /\ app = "load_accuracy_data" /\ pc = "return"
    /\ Len(args.annual_files) = 2
    /\ args.annual_files[1] # <<>> /\ args.annual_files[2] # <<>>
    /\ args.annual_files[1] # args.annual_files[2]
    /\ Len(result.annual) >= 2

\* C10 as stated: the row count is the sum of the two sources' row counts,
\* for both loaders.
C10_Original ==
    /\ (app = "load_accuracy_data" /\ pc = "return" /\ Len(args.annual_files) = 2) =>
          Len(result.annual) = Len(args.annual_files[1]) + Len(args.annual_files[2])
    /\ (app = "load_and_transform_data" /\ pc = "return" /\ Len(Ingested(args)) = 2) =>
          Len(result) = Len(args[1].rows) + Len(args[2].rows)
\* C11 as stated: in both loaders a source that cannot be read is skipped
\* and the rows of the remaining sources are returned; no loader raises.
C11_UnreadableSkipped ==
    /\ (app = "load_and_transform_data" /\ pc # "call") =>
          /\ pc = "return"
          /\ result = load_and_transform_data(SelectSeq(args, LAMBDA x : x.readable))
    /\ (app = "load_accuracy_data" /\ pc # "call") =>
          /\ pc = "return"
          /\ result = load_accuracy_data(
                          SelectSeq(args.annual_files, LAMBDA f : ~read_csv_raises(f)),
                          SelectSeq(args.monthly_files, LAMBDA f : ~read_csv_raises(f)))

\* C12: a source of load_and_transform_data that lacks any of the six
\* required columns contributes no rows and raises nothing; the rows of the
\* sources that have them all are ingested.
C12_MissingColumn ==
    (app = "load_and_transform_data" /\ pc # "call") =>
        /\ pc = "return"
        /\ LET complete == SelectSeq(args, LAMBDA x :
                               /\ x.readable
                               /\ "HourStartLocal" \in x.columns
                               /\ "Interconnector" \in x.columns
                               /\ "Trade_Abs_MW" \in x.columns
                               /\ "Trade_Direction" \in x.columns
                               /\ "IsPartialHour" \in x.columns
                               /\ "Trade_Bucket_All" \in x.columns)
               rows == AllRows([k \in 1..Len(complete) |-> complete[k].rows])
           IN  TradeIds(result) = TradeIds(SelectSeq(rows, Survives))

\* C12 witness: a source lacking Trade_Direction came before a complete
\* source, and the loader returned the complete source's row only.
C12_Witness ==
    /\ app = "load_and_transform_data" /\ pc = "return"
    /\ Len(args) = 2
    /\ args[1].readable /\ "Trade_Direction" \notin args[1].columns /\ args[1].rows # <<>>
    /\ Len(result) = 1 /\ result[1].Interconnector = IFA1
\* C13: the enriched table holds every row of the loaded annual table
\* exactly once and in place, and a row whose BMU has no monthly row has a
\* null P90_monthly_error (every row when the monthly table is empty).
C13_LeftJoin ==
    (app = "bmu" /\ pc \in EnrichedPcs) =>
        LET base == heap[1]
            monthly == heap[df_monthly]
            enriched == heap[df_annual]
        IN  /\ Len(enriched) = Len(base)
            /\ \A i \in 1..Len(base) :
                  /\ enriched[i].nationalGridBmUnit = base[i].nationalGridBmUnit
                  /\ enriched[i].FUEL_I = base[i].FUEL_I
                  /\ enriched[i].BMU = base[i].BMU
                  /\ enriched[i].A_ABS_NetError_pct = base[i].A_ABS_NetError_pct
                  /\ (\A j \in 1..Len(monthly) : monthly[j].BMU # base[i].BMU)
                         => enriched[i].P90_monthly_error = NULL
            /\ monthly = <<>> =>
                  \A i \in 1..Len(enriched) : enriched[i].P90_monthly_error = NULL

\* C13 witness: of two annual rows one has a P90 from its monthly rows and
\* the other, whose BMU is absent from the monthly table, has none.
C13_Witness ==
    /\ app = "bmu" /\ pc \in EnrichedPcs
    /\ Len(heap[df_annual]) = 2
    /\ heap[df_annual][1].P90_monthly_error # NULL
    /\ heap[df_annual][2].P90_monthly_error = NULL
    /\ \A j \in 1..Len(heap[df_monthly]) : heap[df_monthly][j].BMU # heap[df_annual][2].BMU
    /\ heap[df_monthly] # <<>>
\* C14: the filter applied a second time, with the same predicates, to the
\* table it returned gives the rows it gave the first time; for
\* apply_filters and for the fuel/BMU/attention filter.
C14_Idempotent ==
    (app \in {"apply_filters", "global_filters"} /\ pc = "return2") =>
        heap[Len(heap)] = heap[result]

\* C14 witness: the BMU filter, applied twice, has kept a row of its input
\* and removed another.
C14_Witness ==
    /\ app = "global_filters" /\ pc = "return2"
    /\ heap[result] # <<>>
    /\ Len(heap[result]) < Len(args.df)
    /\ Len(heap) = 3
\* the measures get_measures returns for a table without a row above the
\* threshold
NoMeasures ==
    [ic_hours_above |-> 0, network_hours_above |-> 0, days_above |-> 0,
     total_energy_mwh |-> 0, avg_power_mw |-> [num |-> 0, den |-> 1]]

\* C15 (as amended): in the BMU dashboard an empty filtered_annual ends the
\* run at the "no match" stop, which is not the error stop, with no KPI and
\* no per-fuel statistic computed.  In the trading dashboard an empty
\* filtered_fact does not stop the run: get_measures is computed on it (all
\* zero) and only the daily aggregate is replaced by a message.
C15_EmptySubset ==
    /\ (app = "bmu" /\ filtered_annual # 0 /\ heap[filtered_annual] = <<>>) =>
          /\ pc = "no_match"
          /\ fleet = NULL /\ agg = NULL
    /\ (app = "bmu" /\ pc = "no_match") => heap[filtered_annual] = <<>>
    /\ (app = "trade" /\ filtered_fact # 0 /\ heap[filtered_fact] = <<>>) =>
          /\ pc \in {"filtered", "tabs", "done"}
          /\ pc \in {"tabs", "done"} => measures = Some(NoMeasures)
          /\ daily_data = NULL

\* C15 witness: the trading run has finished on an empty filtered_fact with
\* its measures computed.
C15_Witness ==
    /\ app = "trade" /\ pc = "done"
    /\ heap[filtered_fact] = <<>>
    /\ measures = Some(NoMeasures)

\* C15 as stated: in both dashboards an empty filtered subset ends the run
\* before any aggregation is computed on it.
C15_Original ==
    /\ (app = "bmu" /\ filtered_annual # 0 /\ heap[filtered_annual] = <<>>) =>
          (pc = "no_match" /\ fleet = NULL /\ agg = NULL)
    /\ (app = "trade" /\ filtered_fact # 0 /\ heap[filtered_fact] = <<>>) =>
          (pc \notin {"tabs", "done"} /\ measures = NULL /\ daily_data = NULL)

\* C16: a run with a required input absent stops at the upload prompt with
\* nothing loaded; a run whose ingestion yields an empty canonical table stops
\* at the no-data message with no enrichment, no filtered table and no
\* aggregate; and the BMU dashboard stops there for no other reason, so an
\* empty monthly table next to a non-empty annual one goes on to enrichment.
C16_NoData ==
    /\ (app = "bmu" /\ pc # "start" /\ (annual_file = NULL \/ monthly_file = NULL)) =>
          /\ pc = "need_upload"
          /\ heap = <<>> /\ df_annual = 0 /\ filtered_annual = 0
          /\ fleet = NULL /\ agg = NULL
    /\ (app = "bmu" /\ df_annual # 0 /\ heap[1] = <<>>) =>
          /\ pc = "no_data"
          /\ df_monthly_p90 = 0 /\ filtered_annual = 0
          /\ fleet = NULL /\ agg = NULL
    /\ (app = "bmu" /\ pc = "need_upload") => (annual_file = NULL \/ monthly_file = NULL)
    /\ (app = "bmu" /\ pc = "no_data") => heap[1] = <<>>
    /\ (app = "trade" /\ pc # "start" /\ sources = <<>>) =>
          /\ pc = "need_upload"
          /\ heap = <<>> /\ fact_trades_raw = 0 /\ filtered_fact = 0
          /\ measures = NULL /\ h_above_total = NULL /\ daily_data = NULL
    /\ (app = "trade" /\ fact_trades_raw # 0 /\ heap[fact_trades_raw] = <<>>) =>
          /\ pc = "no_data"
          /\ filtered_fact = 0
          /\ measures = NULL /\ h_above_total = NULL /\ daily_data = NULL
    /\ (app = "trade" /\ pc = "no_data") => heap[fact_trades_raw] = <<>>

\* an uploaded annual file without rows next to a monthly file with rows:
\* the run has stopped at the no-data message
C16_Witness ==
    /\ app = "bmu" /\ pc = "no_data"
    /\ annual_file # NULL /\ monthly_file # NULL
    /\ heap[df_annual] = <<>> /\ heap[df_monthly] # <<>>

\* C17: the loader's body has run at most once for each input-source
\* identity, and exactly for the identities in the cache, whatever reruns,
\* filter choices and uploads came before; and the tables a run gets from
\* the loader, whether computed or taken from the cache, are the ones
\* ingestion produces from the run's sources.
C17_CachedLoader ==
    /\ \A i, j \in 1..Len(ingested) : ingested[i] = ingested[j] => i = j
    /\ {e.key : e \in cache} = Range(ingested)
    /\ (app = "bmu" /\ pc \notin {"start", "load", "need_upload", "crashed"}) =>
          LET key == <<annual_file, monthly_file>>
              val == load_accuracy_data(<<annual_file[1]>>, <<monthly_file[1]>>)
          IN  /\ cache_hit(key) /\ cache_get(key) = val
              /\ heap[1] = val.annual /\ heap[2] = val.monthly
    /\ (app = "trade" /\ pc \notin {"start", "load", "need_upload"}) =>
          LET val == load_and_transform_data(sources)
          IN  /\ cache_hit(sources) /\ cache_get(sources) = val
              /\ heap[fact_trades_raw] = val

\* after two ingestions, a rerun with the same files and another choice of
\* filters has been answered from the cache and has run to its end
C17_Witness ==
    /\ app = "bmu" /\ pc = "done"
    /\ reused /\ Len(ingested) = 2
    /\ fuel_filter # {}

\* the rows of table t on date d with Trade_Abs_MW above the threshold
RowsAbove(t, d, threshold) ==
    {j \in 1..Len(t) : t[j].Date = d /\ t[j].Trade_Abs_MW[1] > threshold}

\* C18: the daily table has one row for each date with a row above the
\* threshold, and its "Hours Over Threshold" is the number of distinct hours
\* of the day among that date's rows above the threshold: at most 24 and at
\* most the number of those rows.
C18_DistinctHours ==
    (app = "trade" /\ pc = "done" /\ daily_data # NULL) =>
        LET t == heap[filtered_fact]
            dd == daily_data[1]
            above == {j \in 1..Len(t) : t[j].Trade_Abs_MW[1] > mw_threshold}
        IN  /\ {dd[i].Date : i \in 1..Len(dd)} = {t[j].Date : j \in above}
            /\ Len(dd) = Cardinality({t[j].Date : j \in above})
            /\ \A i \in 1..Len(dd) :
                  LET rows == RowsAbove(t, dd[i].Date, mw_threshold)
                  IN  /\ dd[i].Hours_Over_Threshold = Cardinality({t[j].Hour : j \in rows})
                      /\ dd[i].Hours_Over_Threshold <= 24
                      /\ dd[i].Hours_Over_Threshold <= Cardinality(rows)

\* a date with more than 24 rows above the threshold, from two
\* interconnectors: the row count exceeds 24, the distinct hours do not
C18_Witness ==
    /\ app = "trade" /\ pc = "done" /\ daily_data # NULL
    /\ \E i \in 1..Len(daily_data[1]) :
          LET rows == RowsAbove(heap[filtered_fact], daily_data[1][i].Date, mw_threshold)
          IN  /\ Cardinality(rows) > 24
              /\ daily_data[1][i].Hours_Over_Threshold < Cardinality(rows)

\* C19: get_measures counts in ic_hours_above exactly the rows whose
\* Trade_Abs_MW is strictly above the threshold, so a row at the threshold is
\* not counted, and ic_hours_above >= network_hours_above >= days_above.
C19_GetMeasures ==
    (app = "get_measures" /\ pc = "return") =>
        LET df == args.df
            above == {j \in 1..Len(df) : df[j].Trade_Abs_MW[1] > args.threshold}
        IN  /\ result.ic_hours_above = Cardinality(above)
            /\ result.network_hours_above = Cardinality({df[j].HourStartLocal : j \in above})
            /\ result.days_above = Cardinality({df[j].Date : j \in above})
            /\ result.ic_hours_above >= result.network_hours_above
            /\ result.network_hours_above >= result.days_above

\* a table with a row at the threshold and two rows of one hour above it:
\* the row at the threshold is left out and the row count exceeds the hours
C19_Witness ==
    /\ app = "get_measures" /\ pc = "return"
    /\ \E j \in 1..Len(args.df) : args.df[j].Trade_Abs_MW[1] = args.threshold
    /\ result.ic_hours_above = 2
    /\ result.network_hours_above = 1

\* C20: once the per-fuel statistics are computed they are those of the
\* filtered table: one group for each fuel that has a row in filtered_annual,
\* with the median, P90, maximum and distinct BMU count of that fuel's rows
\* in filtered_annual.
C20_FilteredFuelStats ==
    (app = "bmu" /\ pc \in {"overview", "done"}) =>
        /\ agg # NULL
        /\ agg = Some(fuel_agg(heap[filtered_annual]))

\* the non-null values of column c among the rows of t whose Fuel is in fuels
NonNullOf(t, c, fuels) ==
    LET g == SelectSeq(t, LAMBDA r : r.Fuel \in fuels /\ r[c] # NULL)
    IN  [i \in 1..Len(g) |-> g[i][c][1]]

\* the 90th percentile of a sequence of values, null when there is none
P90Of(vals) == IF vals = <<>> THEN NULL ELSE Some(Percentile90(vals))

\* C21: the fleet P90, each fuel's p90_err, and the selected fuel's annual
\* and monthly P90 are the 90th percentile of the non-null values of their
\* rows, and null when those rows hold no value; the run gets past each of
\* them, the only run that ends in an exception being one whose loader
\* raised.
C21_PercentileNulls ==
    /\ (app = "bmu" /\ fleet # NULL) =>
          LET t == heap[filtered_annual]
          IN  fleet[1].fleet_p90 =
                  P90Of(NonNullOf(t, "A_ABS_NetError_pct", unique(t, "Fuel")))
    /\ (app = "bmu" /\ agg # NULL) =>
          /\ {agg[1][i].Fuel : i \in 1..Len(agg[1])} = unique(heap[df_annual], "Fuel")
          /\ \A i \in 1..Len(agg[1]) :
                agg[1][i].p90_err =
                    P90Of(NonNullOf(heap[df_annual], "A_ABS_NetError_pct", {agg[1][i].Fuel}))
    /\ (app = "bmu" /\ fuel_kpi # NULL) =>
          /\ fuel_kpi[1].fuel_p90_annual =
                 P90Of(NonNullOf(heap[df_annual], "A_ABS_NetError_pct", {selected_fuel[1]}))
          /\ fuel_kpi[1].fuel_p90_monthly =
                 P90Of(NonNullOf(heap[df_monthly], "M_ABS_NetError_pct", {selected_fuel[1]}))
    /\ (app = "bmu" /\ pc \in {"overview", "by_technology", "done"}) =>
          fleet # NULL /\ agg # NULL
    /\ (app = "bmu" /\ pc = "done") => fuel_kpi # NULL
    /\ (app = "bmu" /\ pc = "crashed") =>
          load_accuracy_data_raises(<<annual_file[1]>>, <<monthly_file[1]>>)

\* a finished run in which the filtered table, the selected fuel's annual
\* rows and its monthly rows hold only nulls while another fuel has values:
\* the four percentiles of the null-only rows are null
C21_Witness ==
    /\ app = "bmu" /\ pc = "done"
    /\ heap[filtered_annual] # <<>>
    /\ fleet[1].fleet_p90 = NULL
    /\ fuel_kpi[1].fuel_p90_annual = NULL
    /\ fuel_kpi[1].monthly_available /\ fuel_kpi[1].fuel_p90_monthly = NULL
    /\ \E i, j \in 1..Len(agg[1]) :
          /\ agg[1][i].Fuel = selected_fuel[1] /\ agg[1][i].p90_err = NULL
          /\ agg[1][j].p90_err # NULL

\* the widget values an export was made under
filter_context(e) ==
    <<e.focus_mode, e.direction_mode, e.include_partial, e.mw_threshold>>

\* C22: two exports of a filtered table (the high-capacity set, the full
\* report) made under different filter contexts, that is with a different
\* interconnector focus, direction mode, partial-hour setting or MW
\* threshold, and holding different rows, are written to different file
\* names, so that the later one does not replace the earlier one.
C22_ExportNames ==
    \A i, j \in 1..Len(exports) :
        ( /\ exports[i].button \in {"high_capacity", "full_report"}
          /\ exports[j].button \in {"high_capacity", "full_report"}
          /\ filter_context(exports[i]) # filter_context(exports[j])
          /\ exports[i].content # exports[j].content )
        => exports[i].filename # exports[j].filename

DigitChars == {Digits[k] : k \in 1..Len(Digits)}

\* the two-digit month tokens of a calendar month
ValidMonthTokens ==
    {<<"0", d>> : d \in DigitChars \ {"0"}} \cup {<<"1", d>> : d \in {"0", "1", "2"}}

\* C23: in the monthly loader a year_month text YYYY-M is padded to YYYY-0M
\* and a text YYYY-MM is left as it is before parsing, so that Year and
\* Month equal the year and month tokens of the text; a text that is not a
\* year and a calendar month gets null YearMonth, Year, Month and MonthName,
\* and its row is still in the table.
C23_YearMonth ==
    (app = "monthly_dates" /\ pc = "return") =>
        /\ Len(result) = Len(args)
        /\ \A i \in 1..Len(args) :
              LET s == IF args[i] = <<>> THEN NAN_TEXT ELSE args[i]
                  r == result[i]
                  n == Len(s)
                  year_first == /\ n >= 6
                                /\ \A k \in 1..4 : s[k] \in DigitChars
                                /\ s[5] = "-"
                  short == year_first /\ n = 6 /\ s[6] \in DigitChars
                  long == year_first /\ n = 7 /\ s[6] \in DigitChars /\ s[7] \in DigitChars
                  valid == \/ short /\ s[6] # "0"
                           \/ long /\ <<s[6], s[7]>> \in ValidMonthTokens
                  month_token == IF short \/ s[6] = "0" THEN <<s[n]>> ELSE <<s[6], s[7]>>
              IN  /\ r.year_month = s
                  /\ short => r.year_month_fixed = SubSeq(s, 1, 5) \o <<"0", s[6]>>
                  /\ long => r.year_month_fixed = s
                  /\ valid => /\ r.YearMonth # NULL /\ r.Year # NULL /\ r.Month # NULL
                              /\ str_int(r.Year[1]) = SubSeq(s, 1, 4)
                              /\ str_int(r.Month[1]) = month_token
                              /\ r.MonthName = Some(MonthNames[r.Month[1]])
                  /\ ~valid => /\ r.YearMonth = NULL /\ r.Year = NULL
                               /\ r.Month = NULL /\ r.MonthName = NULL

\* a returned table with a padded 2025-3 (March) next to the unparsable
\* 2025-13, whose row is kept with null date columns
C23_Witness ==
    /\ app = "monthly_dates" /\ pc = "return"
    /\ Len(result) = 2
    /\ result[1].year_month = <<"2", "0", "2", "5", "-", "3">>
    /\ result[1].year_month_fixed = <<"2", "0", "2", "5", "-", "0", "3">>
    /\ result[1].Year = Some(2025) /\ result[1].Month = Some(3)
    /\ result[1].MonthName = Some("March")
    /\ result[2].year_month = <<"2", "0", "2", "5", "-", "1", "3">>
    /\ result[2].YearMonth = NULL /\ result[2].Year = NULL
    /\ result[2].Month = NULL /\ result[2].MonthName = NULL

\* the BMUs of fuel f whose NeedsAttention flag is set in table t
AttentionBmus(t, f) ==
    {t[i].BMU : i \in {k \in 1..Len(t) : t[k].Fuel = f /\ t[k].NeedsAttention}}

\* C24: in the By-Technology section fuel_attention_count of the selected
\* fuel is the number of distinct BMUs of that fuel whose NeedsAttention flag
\* is true in the enriched annual table, so the per-fuel warning is shown
\* exactly when the attention-only filter would keep a row of that fuel.
C24_FuelAttentionCount ==
    (app = "bmu" /\ pc = "done" /\ fuel_kpi # NULL) =>
        fuel_kpi[1].fuel_attention_count
            = Cardinality(AttentionBmus(heap[df_annual], selected_fuel[1]))

\* a selected fuel with two BMUs, one of them flagged through its monthly
\* P90 alone (annual error below 25)
C24_Witness ==
    /\ app = "bmu" /\ pc = "done" /\ fuel_kpi # NULL
    /\ fuel_kpi[1].fuel_bmu_count = 2
    /\ fuel_kpi[1].fuel_attention_count = 1
    /\ \E i \in 1..Len(heap[df_annual]) :
          LET r == heap[df_annual][i]
          IN  /\ r.Fuel = selected_fuel[1] /\ r.NeedsAttention
              /\ ~ge(r.A_ABS_NetError_pct, ATTENTION_THRESHOLD, Scale)

====
